---- MODULE Spec2Model ----
(***************************************************************************)
(* Model of the session parsing and conversation-reconstruction pipeline   *)
(* of claude-session-export (internal/session/parse.go).                   *)
(*                                                                         *)
(* Input bytes are modelled at the level of JSON lexemes: a byte buffer is  *)
(* a sequence of tokens (punctuation, string/number/null lexemes, junk     *)
(* bytes, spaces and newlines).  Everything the code does on top of the    *)
(* lexemes is modelled as the code does it: trimming, splitting on         *)
(* newlines, the first-byte tests, the grammar check and the struct        *)
(* decoding rules of encoding/json.                                        *)
(***************************************************************************)
EXTENDS Integers, Sequences, FiniteSets, TLC

(***************************************************************************)
(* Bounds of the model.                                                    *)
(***************************************************************************)
\* the largest number of entries (lines / array elements) of an input
MaxEntries == 3
\* the largest number of messages of a directly constructed Session
MaxMsgs == 5

(***************************************************************************)
(* Tokens (lexemes) of a byte buffer.                                      *)
(***************************************************************************)
Str(x) == [t |-> "str", v |-> x]
Num(x) == [t |-> "num", v |-> x]
Bool(x) == [t |-> "bool", v |-> x]
Junk(x) == [t |-> "junk", v |-> x]
Pn(x) == [t |-> x, v |-> ""]
LB == Pn("{")
RB == Pn("}")
LK == Pn("[")
RK == Pn("]")
COLON == Pn(":")
COMMA == Pn(",")
NULL == Pn("null")
SP == Pn("sp")
NL == Pn("nl")

IsSpace(tok) == tok.t \in {"sp", "nl"}

\* Op applied to the value of v, with v evaluated once
Let(v, Op(_)) == CHOOSE r \in {Op(x) : x \in {v}} : TRUE

(***************************************************************************)
(* bytes.TrimSpace, bytes.Split(data, "\n")                                *)
(***************************************************************************)
RECURSIVE TrimLeft(_)
TrimLeft(d) ==
    IF d # <<>> /\ IsSpace(Head(d)) THEN TrimLeft(Tail(d)) ELSE d

RECURSIVE TrimRight(_)
TrimRight(d) ==
    IF d # <<>> /\ IsSpace(d[Len(d)]) THEN TrimRight(SubSeq(d, 1, Len(d) - 1)) ELSE d

TrimSpaceNone(d) == d

TrimSpace(d) == TrimRight(TrimLeft(d))

\* the position of the k-th newline of d; 0 before the first line and
\* Len(d) + 1 after the last
NewlineAt(d, k) ==
    IF k = 0 THEN 0
    ELSE IF k > Cardinality({i \in 1..Len(d) : d[i].t = "nl"}) THEN Len(d) + 1
    ELSE CHOOSE i \in 1..Len(d) :
             /\ d[i].t = "nl"
             /\ Cardinality({j \in 1..(i - 1) : d[j].t = "nl"}) = k - 1

\* the lines of a buffer, without their newline
SplitLines(d) ==
    [k \in 1..(Cardinality({i \in 1..Len(d) : d[i].t = "nl"}) + 1) |->
        SubSeq(d, NewlineAt(d, k - 1) + 1, NewlineAt(d, k) - 1)]

(***************************************************************************)
(* encoding/json: the grammar check.  Whitespace between lexemes is        *)
(* insignificant, so a value is checked on the buffer without its spaces.  *)
(***************************************************************************)
StripWS(d) == SelectSeq(d, LAMBDA tok : ~IsSpace(tok))

RECURSIVE SkipValue(_, _)
RECURSIVE SkipMembers(_, _, _)
RECURSIVE SkipElements(_, _, _)

\* the index after the JSON value that starts at ts[i]; 0 when there is none
SkipValue(ts, i) ==
    IF i > Len(ts) THEN 0
    ELSE IF ts[i].t \in {"str", "num", "bool", "null"} THEN i + 1
    ELSE IF ts[i].t = "{" THEN SkipMembers(ts, i + 1, TRUE)
    ELSE IF ts[i].t = "[" THEN SkipElements(ts, i + 1, TRUE)
    ELSE 0

SkipMembers(ts, i, first) ==
    IF i > Len(ts) THEN 0
    ELSE IF first /\ ts[i].t = "}" THEN i + 1
    ELSE IF ts[i].t = "str" /\ i + 1 <= Len(ts) /\ ts[i + 1].t = ":"
    THEN Let(SkipValue(ts, i + 2), LAMBDA n :
             IF n = 0 \/ n > Len(ts) THEN 0
             ELSE IF ts[n].t = "," THEN SkipMembers(ts, n + 1, FALSE)
             ELSE IF ts[n].t = "}" THEN n + 1
             ELSE 0)
    ELSE 0

SkipElements(ts, i, first) ==
    IF i > Len(ts) THEN 0
    ELSE IF first /\ ts[i].t = "]" THEN i + 1
    ELSE Let(SkipValue(ts, i), LAMBDA n :
             IF n = 0 \/ n > Len(ts) THEN 0
             ELSE IF ts[n].t = "," THEN SkipElements(ts, n + 1, FALSE)
             ELSE IF ts[n].t = "]" THEN n + 1
             ELSE 0)

\* json.Valid: exactly one value and nothing after it
ValidJSON(d) ==
    Let(StripWS(d), LAMBDA ts : ts # <<>> /\ SkipValue(ts, 1) = Len(ts) + 1)

\* the members of the (valid) object whose first member starts at ts[i]:
\* a sequence of [key, val], val the raw tokens of the member's value
RECURSIVE MembersFrom(_, _, _)
MembersFrom(ts, i, acc) ==
    IF ts[i].t = "}" THEN acc
    ELSE Let(SkipValue(ts, i + 2), LAMBDA n :
             Let(Append(acc, [key |-> ts[i].v, val |-> SubSeq(ts, i + 2, n - 1)]),
                 LAMBDA more :
                     IF ts[n].t = "," THEN MembersFrom(ts, n + 1, more) ELSE more))

\* the elements of the (valid) array whose first element starts at ts[i]
RECURSIVE ElementsFrom(_, _, _)
ElementsFrom(ts, i, acc) ==
    IF ts[i].t = "]" THEN acc
    ELSE Let(SkipValue(ts, i), LAMBDA n :
             Let(Append(acc, SubSeq(ts, i, n - 1)), LAMBDA more :
                 IF ts[n].t = "," THEN ElementsFrom(ts, n + 1, more) ELSE more))

\* raw is a valid JSON value without spaces
IsObject(raw) == raw # <<>> /\ raw[1].t = "{"
IsArray(raw) == raw # <<>> /\ raw[1].t = "["
IsNull(raw) == raw = <<NULL>>
IsString(raw) == Len(raw) = 1 /\ raw[1].t = "str"
Members(raw) == MembersFrom(raw, 2, <<>>)
Elements(raw) == ElementsFrom(raw, 2, <<>>)

(***************************************************************************)
(* encoding/json: decoding a value into the structs of types.go.  A JSON   *)
(* null leaves a string or struct field as it is; a value of the wrong     *)
(* kind is a type error, which Unmarshal returns after decoding the rest.  *)
(***************************************************************************)
NoNested == [present |-> FALSE, Role |-> "", RawContent |-> <<>>]

\* the zero value of Message (types.go); Content nil and Timestamp zero
ZeroMessage ==
    [Type |-> "", Role |-> "", RawContent |-> <<>>, RawTimestamp |-> "",
     Nested |-> NoNested, Content |-> <<>>, Timestamp |-> 0]

\* a field of Go type string
StringFieldOK(raw) == IsString(raw) \/ IsNull(raw)
StringField(cur, raw) == IF IsString(raw) THEN raw[1].v ELSE cur

\* the fields of TokenUsage are ints
UsageKeys == {"input_tokens", "output_tokens", "cache_read_input_tokens",
              "cache_creation_input_tokens"}

UsageOK(raw) ==
    \/ IsNull(raw)
    \/ /\ IsObject(raw)
       /\ Let(Members(raw), LAMBDA mems :
              \A k \in 1..Len(mems) :
                  mems[k].key \in UsageKeys =>
                      \/ IsNull(mems[k].val)
                      \/ Len(mems[k].val) = 1 /\ mems[k].val[1].t = "num")

\* NestedMessage: role, content, model, usage
DecodeNestedMember(acc, key, raw) ==
    IF key = "role"
    THEN [ok |-> acc.ok /\ StringFieldOK(raw),
          val |-> [acc.val EXCEPT !.Role = StringField(acc.val.Role, raw)]]
    ELSE IF key = "content"
    THEN [ok |-> acc.ok, val |-> [acc.val EXCEPT !.RawContent = raw]]
    ELSE IF key = "model"
    THEN [ok |-> acc.ok /\ StringFieldOK(raw), val |-> acc.val]
    ELSE IF key = "usage"
    THEN [ok |-> acc.ok /\ UsageOK(raw), val |-> acc.val]
    ELSE acc

RECURSIVE DecodeNestedMembers(_, _, _)
DecodeNestedMembers(mems, k, acc) ==
    IF k > Len(mems) THEN acc
    ELSE Let(DecodeNestedMember(acc, mems[k].key, mems[k].val),
             LAMBDA next : DecodeNestedMembers(mems, k + 1, next))

DecodeNested(cur, raw) ==
    IF IsNull(raw) THEN [ok |-> TRUE, val |-> NoNested]
    ELSE IF IsObject(raw)
    THEN Let(Members(raw), LAMBDA mems :
             DecodeNestedMembers(mems, 1,
                 [ok |-> TRUE, val |-> [cur EXCEPT !.present = TRUE]]))
    ELSE [ok |-> FALSE, val |-> cur]

\* the keys of Message whose Go type is string, with the field they set
MessageStringKeys == {"type", "role", "timestamp", "cwd", "gitBranch", "version", "model"}

SetMessageString(m, key, raw) ==
    IF key = "type" THEN [m EXCEPT !.Type = StringField(m.Type, raw)]
    ELSE IF key = "role" THEN [m EXCEPT !.Role = StringField(m.Role, raw)]
    ELSE IF key = "timestamp"
    THEN [m EXCEPT !.RawTimestamp = StringField(m.RawTimestamp, raw)]
    ELSE m

DecodeMessageMember(acc, key, raw) ==
    IF key \in MessageStringKeys
    THEN [ok |-> acc.ok /\ StringFieldOK(raw),
          val |-> SetMessageString(acc.val, key, raw)]
    ELSE IF key = "content"
    THEN [ok |-> acc.ok, val |-> [acc.val EXCEPT !.RawContent = raw]]
    ELSE IF key = "message"
    THEN Let(DecodeNested(acc.val.Nested, raw), LAMBDA d :
             [ok |-> acc.ok /\ d.ok, val |-> [acc.val EXCEPT !.Nested = d.val]])
    ELSE IF key = "usage"
    THEN [ok |-> acc.ok /\ UsageOK(raw), val |-> acc.val]
    ELSE acc

RECURSIVE DecodeMessageMembers(_, _, _)
DecodeMessageMembers(mems, k, acc) ==
    IF k > Len(mems) THEN acc
    ELSE Let(DecodeMessageMember(acc, mems[k].key, mems[k].val),
             LAMBDA next : DecodeMessageMembers(mems, k + 1, next))

\* a valid JSON value decoded into a Message
DecodeMessage(raw) ==
    IF IsNull(raw) THEN [ok |-> TRUE, val |-> ZeroMessage]
    ELSE IF IsObject(raw)
    THEN Let(Members(raw), LAMBDA mems :
             DecodeMessageMembers(mems, 1, [ok |-> TRUE, val |-> ZeroMessage]))
    ELSE [ok |-> FALSE, val |-> ZeroMessage]

\* json.Unmarshal(line, &msg) with msg a Message
UnmarshalMessage(d) ==
    IF ValidJSON(d) THEN Let(StripWS(d), LAMBDA raw : DecodeMessage(raw))
    ELSE [ok |-> FALSE, val |-> ZeroMessage]

\* a valid JSON value decoded into a []Message
RECURSIVE DecodeMessageList(_, _, _)
DecodeMessageList(elems, k, acc) ==
    IF k > Len(elems) THEN acc
    ELSE Let(DecodeMessage(elems[k]), LAMBDA d :
             Let([ok |-> acc.ok /\ d.ok, val |-> Append(acc.val, d.val)],
                 LAMBDA next : DecodeMessageList(elems, k + 1, next)))

DecodeMessages(raw) ==
    IF IsNull(raw) THEN [ok |-> TRUE, val |-> <<>>]
    ELSE IF IsArray(raw)
    THEN Let(Elements(raw), LAMBDA elems :
             DecodeMessageList(elems, 1, [ok |-> TRUE, val |-> <<>>]))
    ELSE [ok |-> FALSE, val |-> <<>>]

UnmarshalMessagesNoSyntaxError(d) ==
    IF ValidJSON(d) THEN Let(StripWS(d), LAMBDA raw : DecodeMessages(raw))
    ELSE [ok |-> TRUE, val |-> <<>>]

\* json.Unmarshal(data, &messages) with messages a []Message
UnmarshalMessages(d) ==
    IF ValidJSON(d) THEN Let(StripWS(d), LAMBDA raw : DecodeMessages(raw))
    ELSE [ok |-> FALSE, val |-> <<>>]

\* Session: the key "messages" (Metadata is json:"-")
RECURSIVE DecodeSessionMembers(_, _, _)
DecodeSessionMembers(mems, k, acc) ==
    IF k > Len(mems) THEN acc
    ELSE IF mems[k].key = "messages"
    THEN Let(DecodeMessages(mems[k].val), LAMBDA d :
             Let([ok |-> acc.ok /\ d.ok, val |-> d.val],
                 LAMBDA next : DecodeSessionMembers(mems, k + 1, next)))
    ELSE DecodeSessionMembers(mems, k + 1, acc)

\* json.Unmarshal(data, &session) with session a Session
UnmarshalSession(d) ==
    Let(StripWS(d), LAMBDA raw :
        IF ~ValidJSON(raw) THEN [ok |-> FALSE, val |-> <<>>]
        ELSE IF IsNull(raw) THEN [ok |-> TRUE, val |-> <<>>]
        ELSE IF IsObject(raw)
        THEN Let(Members(raw), LAMBDA mems :
                 DecodeSessionMembers(mems, 1, [ok |-> TRUE, val |-> <<>>]))
        ELSE [ok |-> FALSE, val |-> <<>>])

\* the probe of isJSONL: json.Unmarshal(data, &test) == nil && len(test.Messages) > 0
\* with test.Messages a json.RawMessage, which keeps the raw bytes of any value
MessagesProbe(d) ==
    Let(StripWS(d), LAMBDA raw :
        /\ ValidJSON(raw)
        /\ IsObject(raw)
        /\ Let(Members(raw), LAMBDA mems :
               \E k \in 1..Len(mems) : mems[k].key = "messages"))

(***************************************************************************)
(* ContentBlock and parseContent                                           *)
(***************************************************************************)
ZeroBlock == [Type |-> "", Text |-> "", Name |-> "", Content |-> <<>>]

BlockStringKeys == {"type", "text", "name", "id", "tool_use_id"}

SetBlockString(b, key, raw) ==
    IF key = "type" THEN [b EXCEPT !.Type = StringField(b.Type, raw)]
    ELSE IF key = "text" THEN [b EXCEPT !.Text = StringField(b.Text, raw)]
    ELSE IF key = "name" THEN [b EXCEPT !.Name = StringField(b.Name, raw)]
    ELSE b

DecodeBlockMember(acc, key, raw) ==
    IF key \in BlockStringKeys
    THEN [ok |-> acc.ok /\ StringFieldOK(raw),
          val |-> SetBlockString(acc.val, key, raw)]
    ELSE IF key = "content"
    THEN [ok |-> acc.ok,
          val |-> [acc.val EXCEPT !.Content = IF IsNull(raw) THEN <<>> ELSE raw]]
    ELSE IF key = "is_error"
    THEN [ok |-> acc.ok /\ (IsNull(raw) \/ (Len(raw) = 1 /\ raw[1].t = "bool")),
          val |-> acc.val]
    ELSE IF key = "source"
    THEN [ok |-> acc.ok /\ (IsNull(raw) \/ IsObject(raw)), val |-> acc.val]
    ELSE acc

RECURSIVE DecodeBlockMembers(_, _, _)
DecodeBlockMembers(mems, k, acc) ==
    IF k > Len(mems) THEN acc
    ELSE Let(DecodeBlockMember(acc, mems[k].key, mems[k].val),
             LAMBDA next : DecodeBlockMembers(mems, k + 1, next))

DecodeBlock(raw) ==
    IF IsNull(raw) THEN [ok |-> TRUE, val |-> ZeroBlock]
    ELSE IF IsObject(raw)
    THEN Let(Members(raw), LAMBDA mems :
             DecodeBlockMembers(mems, 1, [ok |-> TRUE, val |-> ZeroBlock]))
    ELSE [ok |-> FALSE, val |-> ZeroBlock]

RECURSIVE DecodeBlockList(_, _, _)
DecodeBlockList(elems, k, acc) ==
    IF k > Len(elems) THEN acc
    ELSE Let(DecodeBlock(elems[k]), LAMBDA d :
             Let([ok |-> acc.ok /\ d.ok, val |-> Append(acc.val, d.val)],
                 LAMBDA next : DecodeBlockList(elems, k + 1, next)))

\* json.Unmarshal(raw, &blocks) with blocks a []ContentBlock; raw is a valid value
UnmarshalBlocks(raw) ==
    IF IsNull(raw) THEN [ok |-> TRUE, val |-> <<>>]
    ELSE IF IsArray(raw)
    THEN Let(Elements(raw), LAMBDA elems :
             DecodeBlockList(elems, 1, [ok |-> TRUE, val |-> <<>>]))
    ELSE [ok |-> FALSE, val |-> <<>>]

TextBlockOf(s) == [ZeroBlock EXCEPT !.Type = "text", !.Text = s]

ParseContentNoWrap(raw) == UnmarshalBlocks(raw)

\* parseContent: a string (a null decodes into the string too) wraps into
\* one text block, anything else decodes as an array of blocks
parseContent(raw) ==
    IF Len(raw) = 0 THEN [ok |-> TRUE, val |-> <<>>]
    ELSE IF IsString(raw) \/ IsNull(raw)
    THEN [ok |-> TRUE, val |-> <<TextBlockOf(IF IsString(raw) THEN raw[1].v ELSE "")>>]
    ELSE UnmarshalBlocks(raw)

(***************************************************************************)
(* time.Parse(time.RFC3339, s): instants are numbered, 0 is the zero time. *)
(* The RFC3339 layout accepts a fractional second in the input too.        *)
(***************************************************************************)
TimeTable ==
    [raw : {"2024-01-15T10:00:00Z"}, at : {1}] \cup
    [raw : {"2024-01-15T10:00:05Z"}, at : {2}] \cup
    [raw : {"2024-01-15T10:01:00.5Z"}, at : {3}]

ParseRFC3339(s) ==
    IF \E e \in TimeTable : e.raw = s
    THEN [ok |-> TRUE, at |-> (CHOOSE e \in TimeTable : e.raw = s).at]
    ELSE [ok |-> FALSE, at |-> 0]

\* parseMessages, lines 150-158: the timestamp of one message
ParseTimestamp(msg) ==
    IF msg.RawTimestamp # "" /\ ParseRFC3339(msg.RawTimestamp).ok
    THEN ParseRFC3339(msg.RawTimestamp).at
    ELSE msg.Timestamp

(***************************************************************************)
(* Inputs.  An input is a document: a list of entries drawn from a         *)
(* catalog, laid out as JSONL (one entry per line), as a pretty-printed    *)
(* session object {"messages": [...]} or as a pretty-printed array, with   *)
(* or without surrounding whitespace.                                      *)
(***************************************************************************)
RECURSIVE JoinWith(_, _)
JoinWith(parts, sep) ==
    IF parts = <<>> THEN <<>>
    ELSE IF Len(parts) = 1 THEN parts[1]
    ELSE parts[1] \o sep \o JoinWith(Tail(parts), sep)

KV(k, val) == <<Str(k), COLON>> \o val
Obj(members) == <<LB>> \o JoinWith(members, <<COMMA>>) \o <<RB>>
Arr(elems) == <<LK>> \o JoinWith(elems, <<COMMA>>) \o <<RK>>
TextJSON(s) == Obj(<<KV("type", <<Str("text")>>), KV("text", <<Str(s)>>)>>)

\* kind: "msg" a well-formed message, "other" a well-formed entry that is no
\* message, "malformed" no JSON value, "badfield" a JSON object whose content
\* has an unexpected shape, "empty" the object {}, "blank" a blank line,
\* "null" the value null.
\* role, blocks, at: what a well-formed message says.
Catalog == <<
    \* 1: flat dialect, array content
    [toks |-> Obj(<<KV("role", <<Str("user")>>),
                    KV("content", Arr(<<TextJSON("hi")>>)),
                    KV("timestamp", <<Str("2024-01-15T10:00:00Z")>>)>>),
     kind |-> "msg", dialect |-> "flat", type |-> "",
     role |-> "user", blocks |-> <<TextBlockOf("hi")>>, at |-> 1],
    \* 2: flat dialect, array content with a block of an unrecognized type
    [toks |-> Obj(<<KV("role", <<Str("assistant")>>),
                    KV("content", Arr(<<TextJSON("yo"),
                                        Obj(<<KV("type", <<Str("widget")>>)>>)>>)),
                    KV("timestamp", <<Str("2024-01-15T10:00:05Z")>>)>>),
     kind |-> "msg", dialect |-> "flat", type |-> "",
     role |-> "assistant",
     blocks |-> <<TextBlockOf("yo"), [ZeroBlock EXCEPT !.Type = "widget"]>>, at |-> 2],
    \* 3: flat dialect, type "message", bare string content, fractional second
    [toks |-> Obj(<<KV("type", <<Str("message")>>),
                    KV("role", <<Str("assistant")>>),
                    KV("content", <<Str("ok")>>),
                    KV("timestamp", <<Str("2024-01-15T10:01:00.5Z")>>)>>),
     kind |-> "msg", dialect |-> "flat", type |-> "message",
     role |-> "assistant", blocks |-> <<TextBlockOf("ok")>>, at |-> 3],
    \* 4: nested dialect, the same message as entry 1
    [toks |-> Obj(<<KV("type", <<Str("user")>>),
                    KV("message", Obj(<<KV("role", <<Str("user")>>),
                                        KV("content", Arr(<<TextJSON("hi")>>))>>)),
                    KV("timestamp", <<Str("2024-01-15T10:00:00Z")>>)>>),
     kind |-> "msg", dialect |-> "nested", type |-> "user",
     role |-> "user", blocks |-> <<TextBlockOf("hi")>>, at |-> 1],
    \* 5: a summary entry
    [toks |-> Obj(<<KV("type", <<Str("summary")>>), KV("summary", <<Str("s")>>)>>),
     kind |-> "other", dialect |-> "flat", type |-> "summary",
     role |-> "", blocks |-> <<>>, at |-> 0],
    \* 6: a truncated object: starts with '{', no JSON value
    [toks |-> <<LB, Str("role"), COLON>>,
     kind |-> "malformed", dialect |-> "", type |-> "",
     role |-> "", blocks |-> <<>>, at |-> 0],
    \* 7: bytes that start no JSON value
    [toks |-> <<Junk("oops")>>,
     kind |-> "malformed", dialect |-> "", type |-> "",
     role |-> "", blocks |-> <<>>, at |-> 0],
    \* 8: content is a number
    [toks |-> Obj(<<KV("role", <<Str("user")>>), KV("content", <<Num("5")>>)>>),
     kind |-> "badfield", dialect |-> "flat", type |-> "",
     role |-> "user", blocks |-> <<>>, at |-> 0],
    \* 9: content is an object
    [toks |-> Obj(<<KV("role", <<Str("assistant")>>), KV("content", <<LB, RB>>)>>),
     kind |-> "badfield", dialect |-> "flat", type |-> "",
     role |-> "assistant", blocks |-> <<>>, at |-> 0],
    \* 10: content is an array with a block whose text is a number
    [toks |-> Obj(<<KV("role", <<Str("assistant")>>),
                    KV("content", Arr(<<Obj(<<KV("type", <<Str("text")>>),
                                              KV("text", <<Num("5")>>)>>)>>))>>),
     kind |-> "badfield", dialect |-> "flat", type |-> "",
     role |-> "assistant", blocks |-> <<>>, at |-> 0],
    \* 11: the empty object
    [toks |-> <<LB, RB>>,
     kind |-> "empty", dialect |-> "flat", type |-> "",
     role |-> "", blocks |-> <<>>, at |-> 0],
    \* 12: a blank line
    [toks |-> <<SP>>,
     kind |-> "blank", dialect |-> "", type |-> "",
     role |-> "", blocks |-> <<>>, at |-> 0],
    \* 13: the JSON value null
    [toks |-> <<NULL>>,
     kind |-> "null", dialect |-> "", type |-> "",
     role |-> "", blocks |-> <<>>, at |-> 0]
>>

EntryIds == 1..Len(Catalog)
Layouts == {"jsonl", "object", "array"}

EntryToks(es) == [k \in 1..Len(es) |-> Catalog[es[k]].toks]

Layout(lay, es) ==
    IF lay = "jsonl" THEN JoinWith(EntryToks(es), <<NL>>)
    ELSE IF lay = "object"
    THEN <<LB, NL, Str("messages"), COLON, LK, NL>>
         \o JoinWith(EntryToks(es), <<COMMA, NL>>) \o <<NL, RK, NL, RB>>
    ELSE <<LK, NL>> \o JoinWith(EntryToks(es), <<COMMA, NL>>) \o <<NL, RK>>

Render(lay, pad, es) ==
    IF pad THEN <<SP, NL>> \o Layout(lay, es) \o <<NL, SP>> ELSE Layout(lay, es)

EntryLists == UNION {[1..n -> EntryIds] : n \in 0..MaxEntries}

(***************************************************************************)
(* State                                                                   *)
(***************************************************************************)
VARIABLES
    src,            \* how the input was laid out: [lay, pad, es]
    data,           \* Parse's argument, the input bytes
    pc,             \* where the program is
    buf,            \* data after bytes.TrimSpace
    mode,           \* what isJSONL decided: "jsonl" or "json"
    lines,          \* parseJSONL: the lines the scanner has not delivered yet
    messages,       \* parseJSONL: var messages []Message
    session,        \* session.Messages
    idx,            \* parseMessages: the loop index (from 1)
    err,            \* the error Parse returns, "" for nil
    gi,             \* GroupConversations: the loop index (from 1)
    current,        \* GroupConversations: *current, <<>> for nil
    conversations,  \* GroupConversations: var conversations []Conversation
    repoURL,        \* Generator: g.RepoURL
    items,          \* buildIndexData: data.Items
    totals,         \* buildIndexData: the Total... fields of data
    ci,             \* buildIndexData: the loop index i (from 0)
    batch,          \* BatchGenerator: its projects, its position, what it wrote
    search,         \* SearchSessions: the files, the position, the results
    cli,            \* Run: the arguments, the flags, the position, what was done
    out             \* Generate: the page number of its loop, the files written

vars == <<src, data, pc, buf, mode, lines, messages, session, idx, err,
          gi, current, conversations, repoURL, items, totals, ci, batch, search, cli,
          out>>

groupVars == <<gi, current, conversations>>

\* the state of the batch generator, of the search and of the command line,
\* and the files of the generator
walkVars == <<batch, search, cli, out>>

\* the state of the generator, the batch generator, the search and the command
\* line, which the parser and the grouper leave alone
restVars == <<repoURL, items, totals, ci, batch, search, cli, out>>

\* the zero value of IndexData (html.go)
ZeroTotals ==
    [TotalPrompts |-> 0, TotalMessages |-> 0, TotalToolCalls |-> 0,
     TotalCommits |-> 0, TotalPages |-> 0]

\* no BatchGenerator
NoBatch ==
    [Projects |-> <<>>, at |-> "", pi |-> 0, si |-> 0, log |-> <<>>, dirs |-> {},
     projectIndexes |-> {}, masterIndex |-> FALSE, warnings |-> 0, ret |-> ""]

\* no search
NoSearch ==
    [Files |-> <<>>, at |-> "", fi |-> 0, asked |-> "", query |-> "", matches |-> <<>>,
     results |-> <<>>]

\* no command has run
NoCLI == [at |-> ""]

\* Generate has written nothing
NoOut == [pageNum |-> 1, files |-> <<>>]

\* no Generator has run
RestIdle ==
    /\ repoURL = ""
    /\ items = <<>>
    /\ totals = ZeroTotals
    /\ ci = 0
    /\ batch = NoBatch
    /\ search = NoSearch
    /\ cli = NoCLI
    /\ out = NoOut

(***************************************************************************)
(* isJSONL                                                                 *)
(***************************************************************************)
\* lines 66-77: the number of lines whose first non-space byte is '{'
JSONLineCount(d) ==
    LET ls == SplitLines(d) IN
    Cardinality({k \in 1..Len(ls) :
        TrimSpace(ls[k]) # <<>> /\ TrimSpace(ls[k])[1].t = "{"})

ProbeSkipped(d) == FALSE

\* lines 56-64: a JSON object with a "messages" key is a session object
ProbeSaysJSON(d) == d[1].t = "{" /\ MessagesProbe(d)

isJSONL(d) ==
    IF d[1].t = "[" THEN FALSE
    ELSE IF ProbeSaysJSON(d) THEN FALSE
    ELSE JSONLineCount(d) > 1

(***************************************************************************)
(* Parse                                                                   *)
(***************************************************************************)
Init ==
    /\ \E lay \in Layouts, pad \in BOOLEAN, es \in EntryLists :
          /\ src = [lay |-> lay, pad |-> pad, es |-> es]
          /\ data = Render(lay, pad, es)
    /\ pc = "Parse"
    /\ buf = <<>>
    /\ mode = ""
    /\ lines = <<>>
    /\ messages = <<>>
    /\ session = <<>>
    /\ idx = 1
    /\ err = ""
    /\ gi = 1
    /\ current = <<>>
    /\ conversations = <<>>
    /\ RestIdle

\* Parse, lines 33-36: trim, and the empty input is an empty Session
ParseTrim ==
    /\ pc = "Parse"
    /\ buf' = TrimSpace(data)
    /\ pc' = IF Len(buf') = 0 THEN "done" ELSE "isJSONL"
    /\ UNCHANGED <<src, data, mode, lines, messages, session, idx, err>>
    /\ UNCHANGED groupVars
    /\ UNCHANGED restVars

\* Parse, lines 39-44: the format decides the decoder
ParseDetect ==
    /\ pc = "isJSONL"
    /\ IF isJSONL(buf)
       THEN /\ mode' = "jsonl"
            /\ lines' = SplitLines(buf)
            /\ pc' = "scan"
       ELSE /\ mode' = "json"
            /\ lines' = lines
            /\ pc' = "parseJSON"
    /\ UNCHANGED <<src, data, buf, messages, session, idx, err>>
    /\ UNCHANGED groupVars
    /\ UNCHANGED restVars

KeepAnyType(msg) == TRUE

\* parseJSONL, line 127: the entry is a message
KeepType(msg) == ~(msg.Type # "" /\ msg.Type # "message")

\* parseJSONL, lines 114-132: one turn of the scanner loop
ScanLine ==
    /\ pc = "scan"
    /\ lines # <<>>
    /\ \E line \in {TrimSpace(Head(lines))} :
          \E m \in {UnmarshalMessage(line)} :
             messages' =
                 IF Len(line) = 0 THEN messages
                 ELSE IF ~m.ok THEN messages
                 ELSE IF ~KeepType(m.val) THEN messages
                 ELSE Append(messages, m.val)
    /\ lines' = Tail(lines)
    /\ UNCHANGED <<src, data, pc, buf, mode, session, idx, err>>
    /\ UNCHANGED groupVars
    /\ UNCHANGED restVars

\* parseJSONL, lines 134-139: the scanner is done (a reader of bytes fails
\* only on a line longer than 10 MB, which no input here has)
ScanEnd ==
    /\ pc = "scan"
    /\ lines = <<>>
    /\ session' = messages
    /\ idx' = 1
    /\ pc' = "parseMessages"
    /\ UNCHANGED <<src, data, buf, mode, lines, messages, err>>
    /\ UNCHANGED groupVars
    /\ UNCHANGED restVars

\* parseJSON, lines 85-99: a session object with messages, else an array
ParseJSON ==
    /\ pc = "parseJSON"
    /\ \E s \in {UnmarshalSession(buf)}, a \in {UnmarshalMessages(buf)} :
          IF s.ok /\ Len(s.val) > 0
          THEN /\ session' = s.val
               /\ err' = err
               /\ pc' = "parseMessages"
          ELSE IF ~a.ok
          THEN /\ session' = session
               /\ err' = "parsing JSON"
               /\ pc' = "done"
          ELSE /\ session' = a.val
               /\ err' = err
               /\ pc' = "parseMessages"
    /\ idx' = 1
    /\ UNCHANGED <<src, data, buf, mode, lines, messages>>
    /\ UNCHANGED groupVars
    /\ UNCHANGED restVars

\* parseMessages, lines 146-166: one turn of the loop
ParseMessagesStep ==
    /\ pc = "parseMessages"
    /\ idx <= Len(session)
    /\ \E msg \in {session[idx]} :
       \E c \in {parseContent(msg.RawContent)} :
          IF ~c.ok
          THEN /\ session' = [session EXCEPT ![idx].Timestamp = ParseTimestamp(msg)]
               /\ err' = "parsing content"
               /\ pc' = "done"
               /\ idx' = idx
          ELSE /\ session' = [session EXCEPT ![idx].Timestamp = ParseTimestamp(msg),
                                             ![idx].Content = c.val]
               /\ err' = err
               /\ pc' = pc
               /\ idx' = idx + 1
    /\ UNCHANGED <<src, data, buf, mode, lines, messages>>
    /\ UNCHANGED groupVars
    /\ UNCHANGED restVars

\* parseMessages, line 167, and the return of the session
ParseMessagesEnd ==
    /\ pc = "parseMessages"
    /\ idx > Len(session)
    /\ pc' = "done"
    /\ UNCHANGED <<src, data, buf, mode, lines, messages, session, idx, err>>
    /\ UNCHANGED groupVars
    /\ UNCHANGED restVars

Next ==
    \/ ParseTrim
    \/ ParseDetect
    \/ ScanLine
    \/ ScanEnd
    \/ ParseJSON
    \/ ParseMessagesStep
    \/ ParseMessagesEnd

Spec == Init /\ [][Next]_vars

\* Parse has returned: the Session when err = "", else nil and the error
Returned == pc = "done"

(***************************************************************************)
(* ExtractText and GroupConversations                                      *)
(***************************************************************************)
RECURSIVE JoinStrings(_, _)
JoinStrings(texts, sep) ==
    IF texts = <<>> THEN ""
    ELSE IF Len(texts) = 1 THEN texts[1]
    ELSE texts[1] \o sep \o JoinStrings(Tail(texts), sep)

ExtractTextAllBlocks(msg) ==
    LET texts == SelectSeq(msg.Content, LAMBDA b : b.Text # "")
    IN JoinStrings([k \in 1..Len(texts) |-> texts[k].Text], "\n")

\* ExtractText: the non-empty texts of the text blocks, joined by newlines
ExtractText(msg) ==
    LET texts == SelectSeq(msg.Content, LAMBDA b : b.Type = "text" /\ b.Text # "")
    IN JoinStrings([k \in 1..Len(texts) |-> texts[k].Text], "\n")

EntryWithoutTimestamp(msg) == [Role |-> msg.Role, Content |-> msg.Content, Timestamp |-> 0]

\* MessageEntry{Role, Content, Timestamp} of a message
EntryOf(msg) == [Role |-> msg.Role, Content |-> msg.Content, Timestamp |-> msg.Timestamp]

StartsUnlessAssistant(msg) == msg.Role # "assistant"

StartsOnAnyRole(msg) == msg.Role # ""

\* GroupConversations, line 215
StartsConversation(msg) == msg.Role = "user"

\* GroupConversations, lines 220-228
NewConversation(msg) ==
    [UserText |-> ExtractText(msg), Timestamp |-> msg.Timestamp,
     Messages |-> <<EntryOf(msg)>>]

\* a Session built directly (as the tests build it): message k carries the
\* text block "k", one of the roles and either no timestamp or instant k
Roles == {"user", "assistant", ""}

DirectMessage(k, role, stamped) ==
    [ZeroMessage EXCEPT !.Role = role,
                        !.Content = <<TextBlockOf(ToString(k))>>,
                        !.Timestamp = IF stamped THEN k ELSE 0]

InitGroup ==
    /\ \E n \in 0..MaxMsgs :
          \E roles \in [1..n -> Roles], stamped \in [1..n -> BOOLEAN] :
             session = [k \in 1..n |-> DirectMessage(k, roles[k], stamped[k])]
    /\ src = [lay |-> "direct", pad |-> FALSE, es |-> <<>>]
    /\ data = <<>>
    /\ pc = "group"
    /\ buf = <<>>
    /\ mode = ""
    /\ lines = <<>>
    /\ messages = <<>>
    /\ idx = 1
    /\ err = ""
    /\ gi = 1
    /\ current = <<>>
    /\ conversations = <<>>
    /\ RestIdle

\* GroupConversations, lines 214-236: one turn of the loop
GroupStep ==
    /\ pc = "group"
    /\ gi <= Len(session)
    /\ \E msg \in {session[gi]} :
       IF StartsConversation(msg)
       THEN /\ conversations' =
                  IF current # <<>> THEN Append(conversations, current[1])
                  ELSE conversations
            /\ current' = <<NewConversation(msg)>>
       ELSE IF current # <<>>
       THEN /\ conversations' = conversations
            /\ current' = <<[current[1] EXCEPT
                               !.Messages = Append(current[1].Messages, EntryOf(msg))]>>
       ELSE UNCHANGED <<conversations, current>>
    /\ gi' = gi + 1
    /\ UNCHANGED <<src, data, pc, buf, mode, lines, messages, session, idx, err>>
    /\ UNCHANGED restVars

\* GroupConversations, lines 238-242: close the last conversation and return
GroupEnd ==
    /\ pc = "group"
    /\ gi > Len(session)
    /\ conversations' =
          IF current # <<>> THEN Append(conversations, current[1]) ELSE conversations
    /\ pc' = "grouped"
    /\ UNCHANGED <<src, data, buf, mode, lines, messages, session, idx, err, gi, current>>
    /\ UNCHANGED restVars

NextGroup ==
    \/ GroupStep
    \/ GroupEnd

SpecGroup == InitGroup /\ [][NextGroup]_vars

(***************************************************************************)
(* What the input says, read off the catalog (not off the decoder).        *)
(***************************************************************************)
Entry(k) == Catalog[src.es[k]]
NumEntries == Len(src.es)
AllKinds(kinds) == \A k \in 1..NumEntries : Entry(k).kind \in kinds
SomeKind(kinds) == \E k \in 1..NumEntries : Entry(k).kind \in kinds

\* what a message is, and what a well-formed message entry says it is
Proj(m) == [role |-> m.Role, blocks |-> m.Content, at |-> m.Timestamp]
Said(e) == [role |-> e.role, blocks |-> e.blocks, at |-> e.at]

\* the well-formed message entries of the input, in order
WellFormed == SelectSeq(src.es, LAMBDA id : Catalog[id].kind = "msg")
SessionSays == [k \in 1..Len(session) |-> Proj(session[k])]
InputSays == [k \in 1..Len(WellFormed) |-> Said(Catalog[WellFormed[k]])]

\* the input is all whitespace
AllSpace(d) == \A k \in 1..Len(d) : IsSpace(d[k])

(***************************************************************************)
(* C1: every JSONL input of N well-formed message lines interleaved with   *)
(* M malformed lines (any N, M >= 0) parses without error into exactly     *)
(* those N messages, in order.                                             *)
(***************************************************************************)
C1_JSONLKeepsWellFormedLines ==
    (Returned /\ src.lay = "jsonl" /\ AllKinds({"msg", "malformed"}))
        => (err = "" /\ SessionSays = InputSays)

(***************************************************************************)
(* C2: a JSONL entry in the nested dialect is in the decoded message list  *)
(* with the Role and the Content blocks of the equivalent flat entry.      *)
(* (Stated on inputs of two or more message lines, which are read as JSONL.)*)
(***************************************************************************)
C2_NestedDecodesLikeFlat ==
    (Returned /\ src.lay = "jsonl" /\ NumEntries >= 2 /\ AllKinds({"msg"})
       /\ \E k \in 1..NumEntries : Entry(k).dialect = "nested")
        => (err = "" /\ SessionSays = InputSays)

(***************************************************************************)
(* C3: in JSON mode every syntactically valid JSON object or array yields  *)
(* a Session and no error.                                                 *)
(***************************************************************************)
C3_ValidJSONNeverFails ==
    (Returned /\ mode = "json" /\ ValidJSON(buf)
       /\ (IsObject(StripWS(buf)) \/ IsArray(StripWS(buf))))
        => err = ""

(***************************************************************************)
(* C4: an entry that is a valid JSON object with a content of unexpected   *)
(* shape never fails the parse, and the well-formed messages of the input  *)
(* are in the result.  (Stated on inputs the decoder reads entry by entry: *)
(* a session object, an array, or JSONL of two or more lines.)             *)
(***************************************************************************)
C4_BadContentNeverFails ==
    (Returned /\ AllKinds({"msg", "badfield"}) /\ SomeKind({"badfield"})
       /\ \A k \in 1..NumEntries : Entry(k).dialect = "flat"
       /\ (src.lay = "jsonl" => NumEntries >= 2))
        => /\ err = ""
           /\ \A k \in 1..Len(InputSays) :
                 \E j \in 1..Len(session) : SessionSays[j] = InputSays[k]

(***************************************************************************)
(* C5 as claimed: every non-empty input that is no valid JSON object or    *)
(* array and has no line that decodes as a JSON object gets a fatal error. *)
(***************************************************************************)
NoLineDecodes(d) ==
    \A k \in 1..Len(SplitLines(d)) :
        ~(ValidJSON(SplitLines(d)[k]) /\ IsObject(StripWS(SplitLines(d)[k])))

Undecodable(d) ==
    /\ ~(ValidJSON(d) /\ (IsObject(StripWS(d)) \/ IsArray(StripWS(d))))
    /\ NoLineDecodes(d)

C5_UndecodableAlwaysFails ==
    (Returned /\ buf # <<>> /\ Undecodable(buf)) => err # ""

(***************************************************************************)
(* C5 amended: every non-empty input that is decodable as neither shape    *)
(* gets a fatal error, except an input that is read as JSONL (it does not  *)
(* start with '[' and two or more of its lines start with '{') and the     *)
(* JSON value null: these yield no error and a Session that holds no       *)
(* message decoded from an object.                                         *)
(***************************************************************************)
ReadAsJSONL(d) == d[1].t # "[" /\ JSONLineCount(d) > 1

C5_UndecodableFailsUnlessJSONL ==
    (Returned /\ buf # <<>> /\ Undecodable(buf))
        => IF ReadAsJSONL(buf) \/ IsNull(StripWS(buf))
           THEN /\ err = ""
                /\ \A j \in 1..Len(session) : Proj(session[j]) = Proj(ZeroMessage)
           ELSE err # ""

C5_Witness ==
    /\ Returned
    /\ buf # <<>>
    /\ Undecodable(buf)
    /\ ~ReadAsJSONL(buf)
    /\ NumEntries >= 2
    /\ err # ""

(***************************************************************************)
(* C6: an input that is one valid JSON object with a non-empty messages    *)
(* key is classified as JSON, never as JSONL, however many of its lines    *)
(* begin with '{', and Parse returns one Message per element of messages,  *)
(* in order; an input whose first non-whitespace byte is '[' is never      *)
(* classified as JSONL.  (The elements are entries whose content is well   *)
(* formed; an element is told by its type and timestamp.)                  *)
(***************************************************************************)
Classified == pc \notin {"Parse", "isJSONL"} /\ buf # <<>>

Decodable == SelectSeq(src.es,
                 LAMBDA id : Catalog[id].kind \in {"msg", "other", "badfield", "empty", "null"})
KeptEntries == SelectSeq(Decodable, LAMBDA id : Catalog[id].type \in {"", "message"})

C7_OnlyMessageTypesDecoded ==
    /\ mode = "jsonl" =>
          \A j \in 1..Len(messages) : messages[j].Type \in {"", "message"}
    /\ (mode = "jsonl" /\ src.lay = "jsonl" /\ pc \in {"parseMessages", "done"})
        => /\ Len(messages) = Len(KeptEntries)
           /\ \A j \in 1..Len(messages) :
                 /\ messages[j].Type = Catalog[KeptEntries[j]].type
                 /\ messages[j].Role =
                        IF Catalog[KeptEntries[j]].dialect = "flat"
                        THEN Catalog[KeptEntries[j]].role ELSE ""

C7_Witness ==
    /\ mode = "jsonl"
    /\ src.lay = "jsonl"
    /\ src.es = <<5, 3, 1>>
    /\ pc = "done"
    /\ Len(messages) = 2

(***************************************************************************)
(* C8: Parse of the empty byte string, and of input that is only           *)
(* whitespace, returns a Session with zero messages and a nil error.       *)
(***************************************************************************)
C8_EmptyInputIsEmptySession ==
    (Returned /\ AllSpace(data)) => (err = "" /\ session = <<>>)

C8_Witness ==
    /\ Returned
    /\ AllSpace(data)
    /\ Len(data) >= 3
    /\ err = ""

(***************************************************************************)
(* C9: a content that is a bare string s decodes to exactly one block      *)
(* {type: text, text: s}; a content that is an array decodes to one block  *)
(* per element, in order, an element of an unrecognized type being kept as *)
(* a block of that type, without an error.  (Stated on inputs of flat      *)
(* well-formed messages that the decoder reads entry by entry.)            *)
(***************************************************************************)
C9_ContentNormalized ==
    (Returned /\ NumEntries >= 1 /\ AllKinds({"msg"})
       /\ (\A k \in 1..NumEntries : Entry(k).dialect = "flat")
       /\ (src.lay = "jsonl" => NumEntries >= 2))
        => /\ err = ""
           /\ Len(session) = NumEntries
           /\ \A k \in 1..NumEntries : session[k].Content = Entry(k).blocks

C9_Witness ==
    /\ Returned
    /\ src.es = <<3, 2>>
    /\ err = ""
    /\ session[1].Content = <<TextBlockOf("ok")>>
    /\ Len(session[2].Content) = 2
    /\ session[2].Content[2].Type = "widget"

(***************************************************************************)
(* C10: GroupConversations returns exactly as many conversations as the    *)
(* session has messages with role "user", and the i-th conversation is     *)
(* anchored at the i-th user message: its first message and its Timestamp  *)
(* come from it.  Roles [user, assistant, user, assistant, assistant] give *)
(* 2 conversations, the second with 3 messages.                            *)
(***************************************************************************)
UserIndexes == SelectSeq([k \in 1..Len(session) |-> k],
                         LAMBDA k : session[k].Role = "user")
RolesOf == [k \in 1..Len(session) |-> session[k].Role]

C10_OneConversationPerUserMessage ==
    pc = "grouped" =>
        /\ Len(conversations) = Len(UserIndexes)
        /\ \A i \in 1..Len(conversations) :
              /\ conversations[i].Messages # <<>>
              /\ conversations[i].Messages[1] = EntryOf(session[UserIndexes[i]])
              /\ conversations[i].Timestamp = session[UserIndexes[i]].Timestamp
              /\ conversations[i].UserText = ToString(UserIndexes[i])
        /\ RolesOf = <<"user", "assistant", "user", "assistant", "assistant">>
              => /\ Len(conversations) = 2
                 /\ Len(conversations[2].Messages) = 3

C10_Witness ==
    /\ pc = "grouped"
    /\ RolesOf = <<"user", "assistant", "user", "assistant", "assistant">>
    /\ Len(conversations) = 2
    /\ Len(conversations[2].Messages) = 3

(***************************************************************************)
(* C11: every Conversation of GroupConversations (the ones closed, the one *)
(* still open, and so the ones returned) is non-empty, its first message   *)
(* has role "user", and none of its other messages has role "user".        *)
(***************************************************************************)
OneLeadingUser(conv) ==
    /\ conv.Messages # <<>>
    /\ conv.Messages[1].Role = "user"
    /\ \A k \in 2..Len(conv.Messages) : conv.Messages[k].Role # "user"

C11_OneLeadingUserMessage ==
    /\ \A i \in 1..Len(conversations) : OneLeadingUser(conversations[i])
    /\ \A i \in 1..Len(current) : OneLeadingUser(current[i])

C11_Witness ==
    /\ pc = "grouped"
    /\ Len(session) = MaxMsgs
    /\ session[1].Role # "user"
    /\ Len(conversations) = 2
    /\ Len(conversations[1].Messages) = 3
    /\ conversations[1].Messages[2].Role = ""

(***************************************************************************)
(* Go strings.  A string is its sequence of characters (code points);      *)
(* len(s) counts the bytes of its UTF-8 encoding.                          *)
(***************************************************************************)
\* the character s[i], "" outside of s
At(s, i) == IF i \in 1..Len(s) THEN SubSeq(s, i, i) ELSE ""

\* the number of bytes of the UTF-8 encoding of a character
Utf8Width(c) == IF c \in {"é", "ß"} THEN 2 ELSE IF c \in {"€", "ẞ"} THEN 3 ELSE 1

\* the number of bytes of s[i..j]
RECURSIVE ByteLenRange(_, _, _)
ByteLenRange(s, i, j) ==
    IF i > j THEN 0
    ELSE IF i = j THEN Utf8Width(At(s, i))
    ELSE ByteLenRange(s, i, (i + j) \div 2) + ByteLenRange(s, (i + j) \div 2 + 1, j)

\* len(s)
ByteLen(s) == ByteLenRange(s, 1, Len(s))

\* s[:n], for n <= len(s): the characters that end within the first n bytes;
\* a character cut by the slice leaves bytes that are no character (written
\* "\\x")
BytePrefix(s, n) ==
    Let(CHOOSE k \in 0..Len(s) :
            /\ ByteLenRange(s, 1, k) <= n
            /\ k < Len(s) => ByteLenRange(s, 1, k + 1) > n, LAMBDA k :
        SubSeq(s, 1, k) \o (IF ByteLenRange(s, 1, k) < n THEN "\\x" ELSE ""))

\* the index after the longest run of characters of cls that starts at s[i]
RunEnd(s, i, cls) ==
    CHOOSE j \in i..(Len(s) + 1) :
        /\ j > Len(s) \/ At(s, j) \notin cls
        /\ \A k \in i..(j - 1) : At(s, k) \in cls

\* the index after the longest run of characters not of cls that starts at s[i]
RunEndNot(s, i, cls) ==
    CHOOSE j \in i..(Len(s) + 1) :
        /\ j > Len(s) \/ At(s, j) \in cls
        /\ \A k \in i..(j - 1) : At(s, k) \notin cls

\* strings.Split(s, "\n"): the lines of s from index i on
RECURSIVE SplitStringFrom(_, _)
SplitStringFrom(s, i) ==
    Let(RunEndNot(s, i, {"\n"}), LAMBDA e :
        IF e > Len(s) THEN <<SubSeq(s, i, Len(s))>>
        ELSE <<SubSeq(s, i, e - 1)>> \o SplitStringFrom(s, e + 1))

SplitString(s) == SplitStringFrom(s, 1)

HasPrefixAt(s, p, lit) ==
    p + Len(lit) - 1 <= Len(s) /\ SubSeq(s, p, p + Len(lit) - 1) = lit

\* strings.TrimSuffix
TrimSuffix(s, suffix) ==
    IF Len(s) >= Len(suffix) /\ HasPrefixAt(s, Len(s) - Len(suffix) + 1, suffix)
    THEN SubSeq(s, 1, Len(s) - Len(suffix))
    ELSE s

(***************************************************************************)
(* regexp: the character classes and the two patterns of parse.go.         *)
(* FindStringSubmatch returns the leftmost match, and of the matches that  *)
(* start there the one a backtracking matcher finds first.                 *)
(***************************************************************************)
Digit == {"0", "1", "2", "3", "4", "5", "6", "7", "8", "9"}
HexLower == Digit \cup {"a", "b", "c", "d", "e", "f"}
LowerLetter == {"a", "b", "c", "d", "e", "f", "g", "h", "i", "j", "k", "l", "m",
                "n", "o", "p", "q", "r", "s", "t", "u", "v", "w", "x", "y", "z"}
UpperLetter == {"A", "B", "C", "D", "E", "F", "G", "H", "I", "J", "K", "L", "M",
                "N", "O", "P", "Q", "R", "S", "T", "U", "V", "W", "X", "Y", "Z"}
\* \w
WordChar == Digit \cup LowerLetter \cup UpperLetter \cup {"_"}
\* [\w\-/]
RefChar == WordChar \cup {"-", "/"}
\* \s
SpaceChar == {" ", "\t", "\n", "\r", "\f"}

NoCommitMatch == [ok |-> FALSE, hash |-> "", message |-> ""]

ShortHashLen == 7 - 1

\* {7,}: the least number of hex digits of a hash
MinHashLen == 7

\* \s+(.+) on s from index i: the spaces are taken greedily and given back one
\* by one until a character other than a newline follows; (.+) is the rest of
\* the line
CommitMessageAt(s, hash, i) ==
    Let(RunEnd(s, i, SpaceChar), LAMBDA d :
        Let({e \in (i + 1)..d : e <= Len(s) /\ At(s, e) # "\n"}, LAMBDA starts :
            IF starts = {} THEN NoCommitMatch
            ELSE Let(CHOOSE e \in starts : \A f \in starts : f <= e, LAMBDA e :
                     [ok |-> TRUE, hash |-> hash,
                      message |-> SubSeq(s, e, RunEndNot(s, e, {"\n"}) - 1)])))

\* CommitPattern, \[[\w\-/]+\s+([a-f0-9]{7,})\]\s+(.+), matched at s[p]
CommitMatchAt(s, p) ==
    IF At(s, p) # "[" THEN NoCommitMatch
    ELSE Let(RunEnd(s, p + 1, RefChar), LAMBDA a :
         IF a = p + 1 THEN NoCommitMatch
         ELSE Let(RunEnd(s, a, SpaceChar), LAMBDA b :
              IF b = a THEN NoCommitMatch
              ELSE Let(RunEnd(s, b, HexLower), LAMBDA c :
                   IF c - b < MinHashLen \/ c > Len(s) \/ At(s, c) # "]"
                   THEN NoCommitMatch
                   ELSE CommitMessageAt(s, SubSeq(s, b, c - 1), c + 1))))

\* CommitPattern.FindStringSubmatch(s): the leftmost match
CommitPattern(s) ==
    IF \E p \in 1..Len(s) : At(s, p) = "[" /\ CommitMatchAt(s, p).ok
    THEN CommitMatchAt(s, CHOOSE p \in 1..Len(s) :
                              /\ At(s, p) = "[" /\ CommitMatchAt(s, p).ok
                              /\ \A q \in 1..(p - 1) :
                                    ~(At(s, q) = "[" /\ CommitMatchAt(s, q).ok))
    ELSE NoCommitMatch

NoRepoMatch == [ok |-> FALSE, repo |-> ""]

\* (?:\s|$)
EndOrSpace(s, i) == i > Len(s) \/ At(s, i) \in SpaceChar

\* (?:\.git)?(?:\s|$) at s[e]
RepoTailAt(s, e) ==
    \/ HasPrefixAt(s, e, ".git") /\ EndOrSpace(s, e + 4)
    \/ EndOrSpace(s, e)

\* [^/\s]+? : the shortest name s[r..e-1] that the rest of the pattern follows;
\* the index after it, 0 when there is none
RECURSIVE RepoNameEnd(_, _)
RepoNameEnd(s, e) ==
    IF e - 1 > Len(s) \/ At(s, e - 1) \in SpaceChar \cup {"/"} THEN 0
    ELSE IF RepoTailAt(s, e) THEN e
    ELSE RepoNameEnd(s, e + 1)

\* [^/]+ : the owner runs to the next slash, whatever is in between
OwnerEnd(s, o) == RunEndNot(s, o, {"/"})

\* GitHubRepoPattern, github\.com[:/]([^/]+/[^/\s]+?)(?:\.git)?(?:\s|$), at s[p]
RepoMatchAt(s, p) ==
    IF ~(HasPrefixAt(s, p, "github.com") /\ At(s, p + 10) \in {":", "/"})
    THEN NoRepoMatch
    ELSE Let(OwnerEnd(s, p + 11), LAMBDA a :
         IF a = p + 11 \/ a > Len(s) \/ At(s, a) # "/" THEN NoRepoMatch
         ELSE Let(RepoNameEnd(s, a + 2), LAMBDA e :
              IF e = 0 THEN NoRepoMatch
              ELSE [ok |-> TRUE, repo |-> SubSeq(s, p + 11, e - 1)]))

\* GitHubRepoPattern.FindStringSubmatch(s): the leftmost match
GitHubRepoPattern(s) ==
    IF \E p \in 1..Len(s) : At(s, p) = "g" /\ RepoMatchAt(s, p).ok
    THEN RepoMatchAt(s, CHOOSE p \in 1..Len(s) :
                            /\ At(s, p) = "g" /\ RepoMatchAt(s, p).ok
                            /\ \A q \in 1..(p - 1) :
                                  ~(At(s, q) = "g" /\ RepoMatchAt(s, q).ok))
    ELSE NoRepoMatch

(***************************************************************************)
(* The analyzer: extractToolResultText, ExtractCommits, DetectGitHubRepo,  *)
(* AnalyzeConversation.  The Content of a block (a Go interface{}) is the  *)
(* JSON value it was decoded from, <<>> for nil.                           *)
(***************************************************************************)
\* m["text"].(string) of an item of the array: its text if it is an object
\* with a string "text" (as a sequence of none or one)
TextOfItem(raw) ==
    IF ~IsObject(raw) THEN <<>>
    ELSE Let(SelectSeq(Members(raw), LAMBDA m : m.key = "text"), LAMBDA ts :
             IF ts # <<>> /\ IsString(ts[Len(ts)].val)
             THEN <<ts[Len(ts)].val[1].v>>
             ELSE <<>>)

RECURSIVE TextsOfItems(_, _, _)
TextsOfItems(elems, k, acc) ==
    IF k > Len(elems) THEN acc
    ELSE Let(acc \o TextOfItem(elems[k]), LAMBDA next :
             TextsOfItems(elems, k + 1, next))

extractToolResultText(content) ==
    IF IsString(content) THEN content[1].v
    ELSE IF IsArray(content)
    THEN JoinStrings(TextsOfItems(Elements(content), 1, <<>>), "\n")
    ELSE ""

\* the zero value of IndexItem (types.go); Stats nil is <<>>
ZeroIndexItem ==
    [Type |-> "", Timestamp |-> 0, Text |-> "", PageNum |-> 0, MessageID |-> "",
     Stats |-> <<>>, LongTexts |-> <<>>,
     CommitHash |-> "", CommitMessage |-> "", RepoURL |-> ""]

\* ExtractCommits, lines 325-330
CommitItem(at, m) ==
    [ZeroIndexItem EXCEPT !.Type = "commit", !.Timestamp = at,
                          !.CommitHash = m.hash, !.CommitMessage = m.message]

\* ExtractCommits, lines 323-332: the lines of one tool result
RECURSIVE CommitsOfLines(_, _, _, _)
CommitsOfLines(ls, k, at, acc) ==
    IF k > Len(ls) THEN acc
    ELSE Let(CommitPattern(ls[k]), LAMBDA m :
             Let(IF m.ok THEN Append(acc, CommitItem(at, m)) ELSE acc, LAMBDA next :
                 CommitsOfLines(ls, k + 1, at, next)))

\* ExtractCommits, line 321 (and DetectGitHubRepo, line 285)
IsToolResult(block) == block.Type = "tool_result"

\* ExtractCommits, lines 320-334: the blocks of one message
RECURSIVE CommitsOfBlocks(_, _, _, _)
CommitsOfBlocks(blocks, k, at, acc) ==
    IF k > Len(blocks) THEN acc
    ELSE Let(IF IsToolResult(blocks[k])
             THEN CommitsOfLines(SplitString(extractToolResultText(blocks[k].Content)),
                                 1, at, acc)
             ELSE acc, LAMBDA next :
             CommitsOfBlocks(blocks, k + 1, at, next))

RECURSIVE CommitsOfMessages(_, _, _)
CommitsOfMessages(msgs, k, acc) ==
    IF k > Len(msgs) THEN acc
    ELSE Let(CommitsOfBlocks(msgs[k].Content, 1, msgs[k].Timestamp, acc), LAMBDA next :
             CommitsOfMessages(msgs, k + 1, next))

ExtractCommits(msgs) == CommitsOfMessages(msgs, 1, <<>>)

\* DetectGitHubRepo, lines 284-292: the first tool result of the blocks that
\* matches; "" when none does
RECURSIVE RepoOfBlocks(_, _)
RepoOfBlocks(blocks, k) ==
    IF k > Len(blocks) THEN ""
    ELSE IF IsToolResult(blocks[k])
    THEN Let(GitHubRepoPattern(extractToolResultText(blocks[k].Content)), LAMBDA m :
             IF m.ok THEN "https://github.com/" \o TrimSuffix(m.repo, ".git")
             ELSE RepoOfBlocks(blocks, k + 1))
    ELSE RepoOfBlocks(blocks, k + 1)

RECURSIVE RepoOfMessages(_, _)
RepoOfMessages(msgs, k) ==
    IF k > Len(msgs) THEN ""
    ELSE Let(RepoOfBlocks(msgs[k].Content, 1), LAMBDA url :
             IF url # "" THEN url ELSE RepoOfMessages(msgs, k + 1))

DetectGitHubRepo(msgs) == RepoOfMessages(msgs, 1)

\* the zero value of ToolStats (types.go)
ZeroStats ==
    [BashCount |-> 0, ReadCount |-> 0, WriteCount |-> 0, EditCount |-> 0,
     GlobCount |-> 0, GrepCount |-> 0, OtherCount |-> 0]

CountToolEditOnly(stats, name) ==
    IF name = "Bash" THEN [stats EXCEPT !.BashCount = @ + 1]
    ELSE IF name = "Read" THEN [stats EXCEPT !.ReadCount = @ + 1]
    ELSE IF name = "Write" THEN [stats EXCEPT !.WriteCount = @ + 1]
    ELSE IF name = "Edit" THEN [stats EXCEPT !.EditCount = @ + 1]
    ELSE IF name = "Glob" THEN [stats EXCEPT !.GlobCount = @ + 1]
    ELSE IF name = "Grep" THEN [stats EXCEPT !.GrepCount = @ + 1]
    ELSE [stats EXCEPT !.OtherCount = @ + 1]

\* AnalyzeConversation, lines 253-268: the switch on the tool name
CountTool(stats, name) ==
    IF name = "Bash" THEN [stats EXCEPT !.BashCount = @ + 1]
    ELSE IF name = "Read" THEN [stats EXCEPT !.ReadCount = @ + 1]
    ELSE IF name = "Write" THEN [stats EXCEPT !.WriteCount = @ + 1]
    ELSE IF name \in {"Edit", "MultiEdit"} THEN [stats EXCEPT !.EditCount = @ + 1]
    ELSE IF name = "Glob" THEN [stats EXCEPT !.GlobCount = @ + 1]
    ELSE IF name = "Grep" THEN [stats EXCEPT !.GrepCount = @ + 1]
    ELSE [stats EXCEPT !.OtherCount = @ + 1]

\* AnalyzeConversation, line 272: the least length of a long text
LongTextMin == 300

\* AnalyzeConversation, line 272
IsLongText(block) == block.Type = "text" /\ ByteLen(block.Text) >= LongTextMin

\* AnalyzeConversation, lines 252-274: one block
AnalyzeBlock(acc, block) ==
    [stats |-> IF block.Type = "tool_use" THEN CountTool(acc.stats, block.Name)
               ELSE acc.stats,
     longTexts |-> IF IsLongText(block) THEN Append(acc.longTexts, block.Text)
                   ELSE acc.longTexts]

RECURSIVE AnalyzeBlocks(_, _, _)
AnalyzeBlocks(blocks, k, acc) ==
    IF k > Len(blocks) THEN acc
    ELSE Let(AnalyzeBlock(acc, blocks[k]), LAMBDA next :
             AnalyzeBlocks(blocks, k + 1, next))

RECURSIVE AnalyzeMessages(_, _, _)
AnalyzeMessages(entries, k, acc) ==
    IF k > Len(entries) THEN acc
    ELSE Let(AnalyzeBlocks(entries[k].Content, 1, acc), LAMBDA next :
             AnalyzeMessages(entries, k + 1, next))

\* AnalyzeConversation: [stats, longTexts]
AnalyzeConversation(conv) ==
    AnalyzeMessages(conv.Messages, 1, [stats |-> ZeroStats, longTexts |-> <<>>])

\* TruncateText
TruncateText(text, maxLen) ==
    IF ByteLen(text) <= maxLen THEN text ELSE BytePrefix(text, maxLen) \o "..."

(***************************************************************************)
(* Sessions for the generator, built directly (as the tests build them)    *)
(* from a catalog of messages.                                             *)
(***************************************************************************)
\* the largest number of messages of a session given to the generator
MaxIdxMsgs == 3

\* strings.Repeat(c, n)
RECURSIVE Repeat(_, _)
Repeat(c, n) ==
    IF n = 0 THEN ""
    ELSE IF n % 2 = 1 THEN c \o Repeat(c, n - 1)
    ELSE Let(Repeat(c, n \div 2), LAMBDA half : half \o half)

ToolUse(name) == [ZeroBlock EXCEPT !.Type = "tool_use", !.Name = name]
ToolResult(content) == [ZeroBlock EXCEPT !.Type = "tool_result", !.Content = content]
Thinking(s) == [ZeroBlock EXCEPT !.Type = "thinking", !.Text = s]
Image == [ZeroBlock EXCEPT !.Type = "image"]

\* the contents of tool results.  commits: the commit lines the text has, in
\* order, as <<hash, message>>; repo: the owner/repo of the first GitHub
\* remote the text names, "" when it names none.
ToolResults == <<
    \* 1: the output of git commit, and a line whose hash has six digits
    [content |-> <<Str("[main abc1234] Initial commit\n 1 file changed, 1 insertion(+)\n[main abc123] Six digits")>>,
     commits |-> << <<"abc1234", "Initial commit">> >>, repo |-> ""],
    \* 2: an array of items; the item without a string text is passed over
    [content |-> Arr(<<Obj(<<KV("type", <<Str("text")>>),
                             KV("text", <<Str("[feature/test def5678] Add feature")>>)>>),
                       Obj(<<KV("text", <<Num("5")>>)>>),
                       Obj(<<KV("text", <<Str("Not a commit line\n+ [dev 1234567890] Long hash")>>)>>)>>),
     commits |-> << <<"def5678", "Add feature">>, <<"1234567890", "Long hash">> >>,
     repo |-> ""],
    \* 3: the output of git remote -v, SSH form
    [content |-> <<Str("origin\tgit@github.com:user/repo.git (fetch)\norigin\tgit@github.com:user/repo.git (push)")>>,
     commits |-> <<>>, repo |-> "user/repo"],
    \* 4: the HTTPS form of the same remote
    [content |-> <<Str("https://github.com/user/repo.git")>>,
     commits |-> <<>>, repo |-> "user/repo"],
    \* 5: the output of git push to another remote, and a short hash
    [content |-> <<Str("To github.com:acme/tool\n[main abc] Too short hash")>>,
     commits |-> <<>>, repo |-> "acme/tool"],
    \* 6: a page of github.com that is no repository, and a path further on
    [content |-> <<Str("see https://github.com/features\nthen read docs/readme first")>>,
     commits |-> <<>>, repo |-> ""],
    \* 7: a remote of another host
    [content |-> <<Str("gitlab.com/user/repo")>>,
     commits |-> <<>>, repo |-> ""],
    \* 8: a content that is neither a string nor an array
    [content |-> <<LB, RB>>, commits |-> <<>>, repo |-> ""],
    \* 9: no content
    [content |-> <<>>, commits |-> <<>>, repo |-> ""]
>>

Result(k) == ToolResult(ToolResults[k].content)

Long300 == Repeat("x", 300)
Short299 == Repeat("x", 299)
\* 299 characters, 598 bytes
Accented299 == Repeat("é", 299)

IndexCatalog == <<
    [Role |-> "user", Timestamp |-> 1, Content |-> <<TextBlockOf("Q1")>>],
    [Role |-> "user", Timestamp |-> 3,
     Content |-> <<TextBlockOf("First part"), ToolUse("Bash"), Thinking("hm"),
                   TextBlockOf(""), Image, TextBlockOf("Second part")>>],
    [Role |-> "user", Timestamp |-> 2, Content |-> <<Result(2)>>],
    [Role |-> "assistant", Timestamp |-> 2,
     Content |-> <<ToolUse("Bash"), ToolUse("Read"), ToolUse("Bash"), ToolUse("Write")>>],
    [Role |-> "assistant", Timestamp |-> 4,
     Content |-> <<ToolUse("Edit"), ToolUse("MultiEdit"), ToolUse("Glob"), ToolUse("Grep"),
                   ToolUse("Task"), ToolUse("bash"),
                   Thinking("[main abc1234] Initial commit"), Image>>],
    [Role |-> "assistant", Timestamp |-> 1,
     Content |-> <<TextBlockOf(Long300), TextBlockOf(Short299), Thinking(Long300)>>],
    [Role |-> "assistant", Timestamp |-> 5,
     Content |-> <<TextBlockOf(Accented299), TextBlockOf("[main abc1234] Initial commit")>>],
    [Role |-> "", Timestamp |-> 2, Content |-> <<Result(1), Result(4)>>],
    [Role |-> "assistant", Timestamp |-> 0, Content |-> <<Result(3), Result(8), Result(5)>>],
    [Role |-> "assistant", Timestamp |-> 1, Content |-> <<Result(6), Result(7), Result(9)>>]
>>

CatalogMessage(k) ==
    [ZeroMessage EXCEPT !.Role = IndexCatalog[k].Role,
                        !.Content = IndexCatalog[k].Content,
                        !.Timestamp = IndexCatalog[k].Timestamp]

(***************************************************************************)
(* Generator.Generate up to the index data, and buildIndexData             *)
(***************************************************************************)
\* render.go, line 16
PromptsPerPage == 5

\* html.go, line 18
ErrNoConversations == "no conversations found in session"

\* the Generator of batch.go, lines 57-62: no RepoURL is given.  The session
\* is up to MaxIdxMsgs different messages of the catalog, in any order
InitIndex ==
    /\ \E n \in 0..MaxIdxMsgs :
          \E ks \in [1..n -> 1..Len(IndexCatalog)] :
             /\ \A a, b \in 1..n : a # b => ks[a] # ks[b]
             /\ session = [k \in 1..n |-> CatalogMessage(ks[k])]
    /\ src = [lay |-> "direct", pad |-> FALSE, es |-> <<>>]
    /\ data = <<>>
    /\ pc = "Generate"
    /\ buf = <<>>
    /\ mode = ""
    /\ lines = <<>>
    /\ messages = <<>>
    /\ idx = 1
    /\ err = ""
    /\ gi = 1
    /\ current = <<>>
    /\ conversations = <<>>
    /\ RestIdle

\* Generate, lines 49-51: the output directory cannot be created
GenerateMkdirFails ==
    /\ pc = "Generate"
    /\ err' = "creating output directory"
    /\ pc' = "done"
    /\ UNCHANGED <<src, data, buf, mode, lines, messages, session, idx>>
    /\ UNCHANGED groupVars
    /\ UNCHANGED restVars

\* Generate, lines 49-56: the directory is there; detect the repository
GenerateDetect ==
    /\ pc = "Generate"
    /\ repoURL' = IF repoURL = "" THEN DetectGitHubRepo(session) ELSE repoURL
    /\ pc' = "group"
    /\ UNCHANGED <<src, data, buf, mode, lines, messages, session, idx, err>>
    /\ UNCHANGED groupVars
    /\ UNCHANGED <<items, totals, ci>>
    /\ UNCHANGED walkVars

\* Generate, lines 60-62
GenerateNoConversations ==
    /\ pc = "grouped"
    /\ Len(conversations) = 0
    /\ err' = ErrNoConversations
    /\ pc' = "done"
    /\ UNCHANGED <<src, data, buf, mode, lines, messages, session, idx>>
    /\ UNCHANGED groupVars
    /\ UNCHANGED restVars

\* Generate, line 65, and buildIndexData, lines 99-103
GenerateBuild ==
    /\ pc = "grouped"
    /\ Len(conversations) # 0
    /\ totals' = [ZeroTotals EXCEPT
                     !.TotalPrompts = Len(conversations),
                     !.TotalPages = (Len(conversations) + PromptsPerPage - 1)
                                        \div PromptsPerPage]
    /\ items' = <<>>
    /\ ci' = 0
    /\ pc' = "index"
    /\ UNCHANGED <<src, data, buf, mode, lines, messages, session, idx, err>>
    /\ UNCHANGED groupVars
    /\ UNCHANGED repoURL
    /\ UNCHANGED walkVars

ToolCallsNamed(stats) ==
    stats.BashCount + stats.ReadCount + stats.WriteCount + stats.EditCount
        + stats.GlobCount + stats.GrepCount

\* the tool calls of a ToolStats, html.go, lines 111-112
ToolCalls(stats) ==
    stats.BashCount + stats.ReadCount + stats.WriteCount + stats.EditCount
        + stats.GlobCount + stats.GrepCount + stats.OtherCount

\* buildIndexData, lines 114-122: the prompt item of conversation i (from 0)
PromptItem(i, conv, a) ==
    [ZeroIndexItem EXCEPT !.Type = "prompt",
                          !.Timestamp = conv.Timestamp,
                          !.Text = TruncateText(conv.UserText, 200),
                          !.PageNum = (i \div PromptsPerPage) + 1,
                          !.MessageID = "msg-" \o ToString(i),
                          !.Stats = a.stats,
                          !.LongTexts = a.longTexts]

\* buildIndexData, lines 106-124: one turn of the loop over the conversations
IndexPrompt ==
    /\ pc = "index"
    /\ ci < Len(conversations)
    /\ \E conv \in {conversations[ci + 1]} :
       \E a \in {AnalyzeConversation(conv)} :
          /\ totals' = [totals EXCEPT
                           !.TotalMessages = @ + Len(conv.Messages),
                           !.TotalToolCalls = @ + ToolCalls(a.stats)]
          /\ items' = Append(items, PromptItem(ci, conv, a))
    /\ ci' = ci + 1
    /\ UNCHANGED <<src, data, pc, buf, mode, lines, messages, session, idx, err>>
    /\ UNCHANGED groupVars
    /\ UNCHANGED repoURL
    /\ UNCHANGED walkVars

\* buildIndexData, lines 127-132: the commits of the session
IndexCommits ==
    /\ pc = "index"
    /\ ci = Len(conversations)
    /\ \E commits \in {ExtractCommits(session)} :
          /\ items' = items \o [k \in 1..Len(commits) |->
                                   [commits[k] EXCEPT !.RepoURL = repoURL]]
          /\ totals' = [totals EXCEPT !.TotalCommits = Len(commits)]
    /\ pc' = "sort"
    /\ UNCHANGED <<src, data, buf, mode, lines, messages, session, idx, err>>
    /\ UNCHANGED groupVars
    /\ UNCHANGED <<repoURL, ci>>
    /\ UNCHANGED walkVars

TimestampAfter(a, b) == a.Timestamp > b.Timestamp

\* html.go, line 136: the less function of the sort
TimestampBefore(a, b) == a.Timestamp < b.Timestamp

\* the sequences that put x into r, a sequence in which no item is less than
\* an item before it, and keep it so
InsertSorted(r, x) ==
    {SubSeq(r, 1, k) \o <<x>> \o SubSeq(r, k + 1, Len(r)) :
        k \in {j \in 0..Len(r) :
                 /\ \A i \in 1..j : ~TimestampBefore(x, r[i])
                 /\ \A i \in (j + 1)..Len(r) : ~TimestampBefore(r[i], x)}}

\* sort.Slice(xs, less), which is not stable: any arrangement of xs in which
\* no item is less than an item before it
RECURSIVE SortOutcomesFrom(_, _, _)
SortOutcomesFrom(xs, k, acc) ==
    IF k > Len(xs) THEN acc
    ELSE Let(UNION {InsertSorted(r, xs[k]) : r \in acc}, LAMBDA next :
             SortOutcomesFrom(xs, k + 1, next))

SortOutcomes(xs) == SortOutcomesFrom(xs, 1, {<<>>})

\* buildIndexData, lines 135-139
IndexSort ==
    /\ pc = "sort"
    /\ items' \in SortOutcomes(items)
    /\ pc' = "indexed"
    /\ UNCHANGED <<src, data, buf, mode, lines, messages, session, idx, err>>
    /\ UNCHANGED groupVars
    /\ UNCHANGED <<repoURL, totals, ci>>
    /\ UNCHANGED walkVars

NextIndex ==
    \/ GenerateMkdirFails
    \/ GenerateDetect
    \/ GroupStep
    \/ GroupEnd
    \/ GenerateNoConversations
    \/ GenerateBuild
    \/ IndexPrompt
    \/ IndexCommits
    \/ IndexSort

SpecIndex == InitIndex /\ [][NextIndex]_vars

(***************************************************************************)
(* What the session says, read off its blocks and the catalog of tool      *)
(* results (not off the analyzer).                                         *)
(***************************************************************************)
RECURSIVE Concat(_)
Concat(seqs) == IF seqs = <<>> THEN <<>> ELSE Head(seqs) \o Concat(Tail(seqs))

Range(f) == {f[k] : k \in DOMAIN f}

Count(xs, x) == Cardinality({k \in 1..Len(xs) : xs[k] = x})

SameBag(xs, ys) ==
    /\ Len(xs) = Len(ys)
    /\ \A x \in Range(xs) \cup Range(ys) : Count(xs, x) = Count(ys, x)

\* the catalog entry of the content of a tool result
ResultSays(content) == CHOOSE e \in Range(ToolResults) : e.content = content

\* the commits a block says, as <<hash, message, timestamp of the message>>
SaidOfBlock(block, at) ==
    IF block.Type = "tool_result"
    THEN [k \in 1..Len(ResultSays(block.Content).commits) |->
             <<ResultSays(block.Content).commits[k][1],
               ResultSays(block.Content).commits[k][2], at>>]
    ELSE <<>>

SaidOfMessage(msg) ==
    Concat([b \in 1..Len(msg.Content) |-> SaidOfBlock(msg.Content[b], msg.Timestamp)])

\* the commits the messages say, in message, block and line order
SaidCommits(msgs) == Concat([m \in 1..Len(msgs) |-> SaidOfMessage(msgs[m])])

\* the commit items of the index, as <<hash, message, timestamp>>
CommitItems == SelectSeq(items, LAMBDA it : it.Type = "commit")
CommitTriples ==
    [k \in 1..Len(CommitItems) |->
        <<CommitItems[k].CommitHash, CommitItems[k].CommitMessage,
          CommitItems[k].Timestamp>>]
PromptItems == SelectSeq(items, LAMBDA it : it.Type = "prompt")

\* the number of messages before the first user message
LeadLen == IF UserIndexes = <<>> THEN Len(session) ELSE UserIndexes[1] - 1
AfterLead == SubSeq(session, LeadLen + 1, Len(session))

\* the index data is built (and sorted)
Indexed == pc = "indexed"

(***************************************************************************)
(* C12: the messages before the first user message are in no conversation  *)
(* and contribute to no index item: the conversations hold the messages    *)
(* from the first user message on, there is one prompt item per user       *)
(* message, and the commit items are those of the tool results of the      *)
(* messages from the first user message on.                                *)
(***************************************************************************)
C12_LeadingMessagesLeaveNoTrace ==
    (Indexed /\ LeadLen > 0) =>
        /\ Concat([i \in 1..Len(conversations) |-> conversations[i].Messages])
              = [k \in 1..Len(AfterLead) |-> EntryOf(AfterLead[k])]
        /\ Len(PromptItems) = Len(UserIndexes)
        /\ SameBag(CommitTriples, SaidCommits(AfterLead))

(***************************************************************************)
(* C13: AnalyzeConversation buckets every tool_use block of the            *)
(* conversation into exactly one counter: Bash, Read, Write, Glob, Grep by *)
(* exact name, Edit and MultiEdit both into EditCount, every other name    *)
(* into OtherCount; other blocks change no counter, so the seven counters  *)
(* sum to the number of tool_use blocks (Bash, Read, Bash, Write gives     *)
(* Bash=2, Read=1, Write=1, all others 0).  Stated of the Stats of the     *)
(* prompt item that buildIndexData makes of each conversation.             *)
(***************************************************************************)
\* the places <<message, block>> of the blocks of a conversation
Places(conv) ==
    UNION {{<<m, b>> : b \in 1..Len(conv.Messages[m].Content)} :
              m \in 1..Len(conv.Messages)}

BlockAt(conv, p) == conv.Messages[p[1]].Content[p[2]]

\* the number of tool_use blocks of the conversation whose name is in names
Named(conv, names) ==
    Cardinality({p \in Places(conv) :
        BlockAt(conv, p).Type = "tool_use" /\ BlockAt(conv, p).Name \in names})

NotNamed(conv, names) ==
    Cardinality({p \in Places(conv) :
        BlockAt(conv, p).Type = "tool_use" /\ BlockAt(conv, p).Name \notin names})

\* the names of the tool_use blocks of the conversation, in order
ToolNames(conv) ==
    Concat([m \in 1..Len(conv.Messages) |->
        [b \in 1..Len(SelectSeq(conv.Messages[m].Content,
                                LAMBDA blk : blk.Type = "tool_use")) |->
            SelectSeq(conv.Messages[m].Content,
                      LAMBDA blk : blk.Type = "tool_use")[b].Name]])

\* while the index is built and before it is sorted, item i is the prompt
\* item of conversation i
PromptsInOrder == pc \in {"index", "sort"}

C13_ToolUseBuckets ==
    PromptsInOrder =>
        \A i \in 1..ci :
            /\ items[i].Stats.BashCount = Named(conversations[i], {"Bash"})
            /\ items[i].Stats.ReadCount = Named(conversations[i], {"Read"})
            /\ items[i].Stats.WriteCount = Named(conversations[i], {"Write"})
            /\ items[i].Stats.GlobCount = Named(conversations[i], {"Glob"})
            /\ items[i].Stats.GrepCount = Named(conversations[i], {"Grep"})
            /\ items[i].Stats.EditCount = Named(conversations[i], {"Edit", "MultiEdit"})
            /\ items[i].Stats.OtherCount =
                  NotNamed(conversations[i], {"Bash", "Read", "Write", "Glob", "Grep",
                                              "Edit", "MultiEdit"})
            /\ ToolCalls(items[i].Stats) = NotNamed(conversations[i], {})
            /\ ToolNames(conversations[i]) = <<"Bash", "Read", "Bash", "Write">>
                  => items[i].Stats = [ZeroStats EXCEPT !.BashCount = 2,
                                                        !.ReadCount = 1,
                                                        !.WriteCount = 1]

C13_Witness ==
    /\ pc = "sort"
    /\ Len(conversations) = 1
    /\ Len(conversations[1].Messages) = 3
    /\ items[1].Stats = [BashCount |-> 3, ReadCount |-> 1, WriteCount |-> 1,
                         EditCount |-> 2, GlobCount |-> 1, GrepCount |-> 1,
                         OtherCount |-> 2]

(***************************************************************************)
(* C14: the long-text list of AnalyzeConversation is exactly the sequence, *)
(* in conversation order, of the text blocks whose length is at least 300  *)
(* characters: a text block of 299 characters is never included, one of    *)
(* 300 characters always is, and non-text blocks are never included.       *)
(* Stated of the LongTexts of the prompt item of each conversation.        *)
(***************************************************************************)
\* the texts of the text blocks of at least n characters, in order
TextsOfChars(conv, n) ==
    Concat([m \in 1..Len(conv.Messages) |->
        [b \in 1..Len(SelectSeq(conv.Messages[m].Content,
                  LAMBDA blk : blk.Type = "text" /\ Len(blk.Text) >= n)) |->
            SelectSeq(conv.Messages[m].Content,
                  LAMBDA blk : blk.Type = "text" /\ Len(blk.Text) >= n)[b].Text]])

C14_LongTextsByCharacters ==
    PromptsInOrder =>
        \A i \in 1..ci :
            /\ items[i].LongTexts = TextsOfChars(conversations[i], 300)
            /\ \A k \in 1..Len(items[i].LongTexts) : Len(items[i].LongTexts[k]) # 299

(***************************************************************************)
(* C15 as claimed: ExtractText of a message is the texts of all its text   *)
(* blocks, in block order, with a single newline between each pair of      *)
(* consecutive text blocks; other blocks contribute nothing.  Stated of    *)
(* the UserText of each conversation, the ExtractText of its user message. *)
(***************************************************************************)
\* the texts with a newline between each two
RECURSIVE JoinedFrom(_, _, _)
JoinedFrom(texts, k, acc) ==
    IF k > Len(texts) THEN acc
    ELSE JoinedFrom(texts, k + 1, IF k = 1 THEN texts[1] ELSE acc \o "\n" \o texts[k])

\* the texts of the text blocks of an entry, in block order
TextsOfEntry(entry) ==
    [k \in 1..Len(SelectSeq(entry.Content, LAMBDA b : b.Type = "text")) |->
        SelectSeq(entry.Content, LAMBDA b : b.Type = "text")[k].Text]

NonEmpty(texts) == SelectSeq(texts, LAMBDA t : t # "")

OpenAndClosed == conversations \o current

CommitsAppended == pc = "sort"

C16_OneCommitPerCommitLine ==
    CommitsAppended =>
        /\ Len(items) = ci + Len(SaidCommits(session))
        /\ \A k \in 1..Len(SaidCommits(session)) :
              /\ items[ci + k].Type = "commit"
              /\ items[ci + k].CommitHash = SaidCommits(session)[k][1]
              /\ items[ci + k].CommitMessage = SaidCommits(session)[k][2]
              /\ items[ci + k].Timestamp = SaidCommits(session)[k][3]

C16_Witness ==
    /\ CommitsAppended
    /\ session = <<CatalogMessage(8), CatalogMessage(3), CatalogMessage(7)>>
    /\ ci = 1
    /\ Len(items) = 4
    /\ items[2].CommitHash = "abc1234" /\ items[2].Timestamp = CatalogMessage(8).Timestamp
    /\ items[3].CommitHash = "def5678" /\ items[3].CommitMessage = "Add feature"
    /\ items[4].CommitHash = "1234567890" /\ items[4].Timestamp = CatalogMessage(3).Timestamp

(***************************************************************************)
(* C17: DetectGitHubRepo returns https://github.com/<owner>/<repo>,        *)
(* without a trailing .git, of the first tool_result block, in message and *)
(* block order, whose text holds a GitHub remote reference (the SSH and    *)
(* the HTTPS form of a remote giving the same URL), and the empty string   *)
(* when no tool_result block holds one; later references never override    *)
(* the first.  Stated of the RepoURL Generate detects.                     *)
(***************************************************************************)
\* the owner/repo the tool results of the blocks say, in block order
SaidReposOfMessage(msg) ==
    Concat([b \in 1..Len(msg.Content) |->
        IF msg.Content[b].Type = "tool_result" /\ ResultSays(msg.Content[b].Content).repo # ""
        THEN <<ResultSays(msg.Content[b].Content).repo>> ELSE <<>>])

SaidRepos(msgs) == Concat([m \in 1..Len(msgs) |-> SaidReposOfMessage(msgs[m])])

Detected == pc \in {"group", "grouped", "index", "sort", "indexed"}

C17_FirstRemoteReferenceWins ==
    Detected =>
        repoURL = IF SaidRepos(session) = <<>> THEN ""
                  ELSE "https://github.com/" \o SaidRepos(session)[1]

(***************************************************************************)
(* C18: the index items built for a session are in ascending               *)
(* (non-decreasing) timestamp order and are a permutation of one prompt    *)
(* item per conversation plus one commit item per extracted commit, so a   *)
(* commit item never precedes a prompt item with a strictly earlier        *)
(* timestamp.                                                              *)
(***************************************************************************)
\* the prompt items of the index, as <<message id, timestamp>>
PromptPairs ==
    [k \in 1..Len(PromptItems) |-> <<PromptItems[k].MessageID, PromptItems[k].Timestamp>>]

\* one per conversation: its anchor id and its timestamp
ConversationPairs ==
    [i \in 1..Len(conversations) |->
        <<"msg-" \o ToString(i - 1), conversations[i].Messages[1].Timestamp>>]

C18_IndexIsChronological ==
    Indexed =>
        /\ \A k \in 1..(Len(items) - 1) : items[k].Timestamp <= items[k + 1].Timestamp
        /\ Len(items) = Len(PromptItems) + Len(CommitItems)
        /\ SameBag(PromptPairs, ConversationPairs)
        /\ SameBag(CommitTriples, SaidCommits(session))
        /\ \A j \in 1..Len(items) : \A k \in (j + 1)..Len(items) :
              (items[j].Type = "commit" /\ items[k].Type = "prompt")
                  => ~(items[k].Timestamp < items[j].Timestamp)

C18_Witness ==
    /\ Indexed
    /\ Len(items) = 3
    /\ items[1].Type = "prompt" /\ items[1].Timestamp = 1 /\ items[1].MessageID = "msg-0"
    /\ items[2].Type = "commit" /\ items[2].Timestamp = 2 /\ items[2].CommitHash = "abc1234"
    /\ items[3].Type = "prompt" /\ items[3].Timestamp = 3 /\ items[3].MessageID = "msg-1"

(***************************************************************************)
(* Session files on disk, for the batch generator and the search.          *)
(* says: the role and the text of each message the file holds.             *)
(***************************************************************************)
FlatLine(role, text) ==
    Obj(<<KV("role", <<Str(role)>>), KV("content", <<Str(text)>>)>>)

NestedLine(role, text) ==
    Obj(<<KV("type", <<Str(role)>>),
          KV("message", Obj(<<KV("role", <<Str(role)>>),
                              KV("content", Arr(<<TextJSON(text)>>))>>))>>)

Says(role, text) == [role |-> role, text |-> text]

SessionFiles == <<
    \* 1: a session of one conversation
    [name |-> "a.jsonl", modTime |-> 3,
     data |-> FlatLine("user", "Fix the Burrito bug") \o <<NL>>
              \o FlatLine("assistant", "Done: the burrito\tbug is a fixed bug"),
     says |-> <<Says("user", "Fix the Burrito bug"),
                Says("assistant", "Done: the burrito\tbug is a fixed bug")>>],
    \* 2: an agent session, assistant messages only
    [name |-> "b.jsonl", modTime |-> 2,
     data |-> FlatLine("assistant", "No BURRITO here") \o <<NL>>
              \o FlatLine("assistant", "ok") \o <<NL>>
              \o FlatLine("assistant", "No BURRITO here"),
     says |-> <<Says("assistant", "No BURRITO here"), Says("assistant", "ok"),
                Says("assistant", "No BURRITO here")>>],
    \* 3: no JSON
    [name |-> "c.jsonl", modTime |-> 2,
     data |-> <<Junk("burrito"), NL, Junk("oops")>>,
     says |-> <<>>],
    \* 4: the nested dialect
    [name |-> "d.jsonl", modTime |-> 1,
     data |-> NestedLine("user", "hi burrito") \o <<NL>>
              \o NestedLine("assistant", "yo"),
     says |-> <<Says("user", "hi burrito"), Says("assistant", "yo")>>],
    \* 5: a JSON array, not named .jsonl
    [name |-> "e.json", modTime |-> 4,
     data |-> Arr(<<FlatLine("user", "burrito recipe")>>),
     says |-> <<Says("user", "burrito recipe")>>],
    \* 6: texts of white space only
    [name |-> "f.jsonl", modTime |-> 1,
     data |-> FlatLine("assistant", "\t") \o <<NL>> \o FlatLine("assistant", "  "),
     says |-> <<Says("assistant", "\t"), Says("assistant", "  ")>>]
>>

\* the sequences of up to n different files
FileLists(n) ==
    UNION {{fs \in [1..m -> 1..Len(SessionFiles)] :
               \A a, b \in 1..m : a # b => fs[a] # fs[b]} : m \in 0..n}

\* ParseFile, lines 23-29: read the file (which is there) and call Parse
ParseFileStarts(f) ==
    /\ data' = SessionFiles[f].data
    /\ pc' = "Parse"
    /\ buf' = <<>>
    /\ mode' = ""
    /\ lines' = <<>>
    /\ messages' = <<>>
    /\ session' = <<>>
    /\ idx' = 1
    /\ err' = ""

(***************************************************************************)
(* BatchGenerator                                                          *)
(***************************************************************************)
MaxFiles == 3

\* the projects: the files in one project, or in two
ProjectsOf(fs) ==
    {<<fs>>} \cup {<<SubSeq(fs, 1, k), SubSeq(fs, k + 1, Len(fs))>> : k \in 1..(Len(fs) - 1)}

InitBatch ==
    /\ \E fs \in FileLists(MaxFiles) : \E ps \in ProjectsOf(fs) :
          batch = [NoBatch EXCEPT !.Projects = ps, !.at = "Generate"]
    /\ search = NoSearch
    /\ cli = NoCLI
    /\ out = NoOut
    /\ src = [lay |-> "file", pad |-> FALSE, es |-> <<>>]
    /\ data = <<>>
    /\ pc = "idle"
    /\ buf = <<>>
    /\ mode = ""
    /\ lines = <<>>
    /\ messages = <<>>
    /\ session = <<>>
    /\ idx = 1
    /\ err = ""
    /\ gi = 1
    /\ current = <<>>
    /\ conversations = <<>>
    /\ repoURL = ""
    /\ items = <<>>
    /\ totals = ZeroTotals
    /\ ci = 0

parseVars == <<data, pc, buf, mode, lines, messages, session, idx, err>>
generatorVars == <<gi, current, conversations, repoURL, items, totals, ci>>

\* BatchGenerator.Generate, lines 23-25: the output directory cannot be created
BatchMkdirFails ==
    /\ batch.at = "Generate"
    /\ batch' = [batch EXCEPT !.ret = "creating output directory", !.at = "end"]
    /\ UNCHANGED <<src, search, cli, out>>
    /\ UNCHANGED parseVars
    /\ UNCHANGED generatorVars

\* BatchGenerator.Generate, lines 23-28: the directory is there
BatchStart ==
    /\ batch.at = "Generate"
    /\ batch' = [batch EXCEPT !.pi = 1, !.at = "project"]
    /\ UNCHANGED <<src, search, cli, out>>
    /\ UNCHANGED parseVars
    /\ UNCHANGED generatorVars

\* generateProject, lines 40-43, and Generate, lines 29-32: the directory of
\* the project cannot be created; a warning, and the next project
ProjectMkdirFails ==
    /\ batch.at = "project"
    /\ batch.pi <= Len(batch.Projects)
    /\ batch' = [batch EXCEPT !.warnings = @ + 1, !.pi = @ + 1]
    /\ UNCHANGED <<src, search, cli, out>>
    /\ UNCHANGED parseVars
    /\ UNCHANGED generatorVars

\* generateProject, lines 40-43: the directory of the project is there
ProjectStart ==
    /\ batch.at = "project"
    /\ batch.pi <= Len(batch.Projects)
    /\ batch' = [batch EXCEPT !.dirs = @ \cup {batch.pi}, !.si = 1, !.at = "session"]
    /\ UNCHANGED <<src, search, cli, out>>
    /\ UNCHANGED parseVars
    /\ UNCHANGED generatorVars

\* generateProject, lines 46-50: the next session of the project is parsed
SessionParse ==
    /\ batch.at = "session"
    /\ batch.si <= Len(batch.Projects[batch.pi])
    /\ ParseFileStarts(batch.Projects[batch.pi][batch.si])
    /\ batch' = [batch EXCEPT !.at = "ParseFile"]
    /\ UNCHANGED <<src, search, cli, out>>
    /\ UNCHANGED generatorVars

\* what the batch notes of a session: the project, the file, what became of it
Logged(b, outcome) ==
    Append(b.log, [project |-> b.pi, file |-> b.Projects[b.pi][b.si], outcome |-> outcome])

ReturnsFromProject(b) == [b EXCEPT !.pi = @ + 1, !.at = "project"]

\* generateProject, lines 53, 67 and 70: continue with the next session
Continue(b) == [b EXCEPT !.si = @ + 1, !.at = "session"]

\* generateProject, lines 50-54: the file does not parse; a warning
SessionParseFails ==
    /\ batch.at = "ParseFile"
    /\ pc = "done"
    /\ err # ""
    /\ batch' = Continue([batch EXCEPT !.warnings = @ + 1,
                                       !.log = Logged(batch, "parse error")])
    /\ pc' = "idle"
    /\ UNCHANGED <<src, search, cli, out, data, buf, mode, lines, messages, session, idx, err>>
    /\ UNCHANGED generatorVars

\* generateProject, lines 57-64: a Generator for the session
SessionGenerate ==
    /\ batch.at = "ParseFile"
    /\ pc = "done"
    /\ err = ""
    /\ batch' = [batch EXCEPT !.at = "gen.Generate"]
    /\ pc' = "Generate"
    /\ gi' = 1
    /\ current' = <<>>
    /\ conversations' = <<>>
    /\ repoURL' = ""
    /\ items' = <<>>
    /\ totals' = ZeroTotals
    /\ ci' = 0
    /\ UNCHANGED <<src, search, cli, out, data, buf, mode, lines, messages, session, idx, err>>

\* generateProject, lines 64-72: Generate has returned (the pages and the
\* index of a session with conversations are written)
SessionGenerated ==
    /\ batch.at = "gen.Generate"
    /\ pc \in {"done", "indexed"}
    /\ batch' = Continue(
          IF pc = "indexed" THEN [batch EXCEPT !.log = Logged(batch, "generated")]
          ELSE IF err = ErrNoConversations
          THEN [batch EXCEPT !.log = Logged(batch, "skipped")]
          ELSE [batch EXCEPT !.warnings = @ + 1, !.log = Logged(batch, "failed")])
    /\ pc' = "idle"
    /\ UNCHANGED <<src, search, cli, out, data, buf, mode, lines, messages, session, idx, err>>
    /\ UNCHANGED generatorVars

\* generateProject, line 75, and generateProjectIndex: the index of the project
ProjectIndex ==
    /\ batch.at = "session"
    /\ batch.si > Len(batch.Projects[batch.pi])
    /\ batch' = [batch EXCEPT !.projectIndexes = @ \cup {batch.pi},
                              !.pi = @ + 1, !.at = "project"]
    /\ UNCHANGED <<src, search, cli, out>>
    /\ UNCHANGED parseVars
    /\ UNCHANGED generatorVars

\* BatchGenerator.Generate, line 36, and generateMasterIndex
MasterIndex ==
    /\ batch.at = "project"
    /\ batch.pi > Len(batch.Projects)
    /\ batch' = [batch EXCEPT !.masterIndex = TRUE, !.at = "end"]
    /\ UNCHANGED <<src, search, cli, out>>
    /\ UNCHANGED parseVars
    /\ UNCHANGED generatorVars

NextBatch ==
    \/ BatchMkdirFails
    \/ BatchStart
    \/ ProjectMkdirFails
    \/ ProjectStart
    \/ SessionParse
    \/ ParseTrim
    \/ ParseDetect
    \/ ScanLine
    \/ ScanEnd
    \/ ParseJSON
    \/ ParseMessagesStep
    \/ ParseMessagesEnd
    \/ SessionParseFails
    \/ SessionGenerate
    \/ GenerateMkdirFails
    \/ GenerateDetect
    \/ GroupStep
    \/ GroupEnd
    \/ GenerateNoConversations
    \/ GenerateBuild
    \/ IndexPrompt
    \/ IndexCommits
    \/ IndexSort
    \/ SessionGenerated
    \/ ProjectIndex
    \/ MasterIndex

SpecBatch == InitBatch /\ [][NextBatch]_vars

(***************************************************************************)
(* strings.ToLower, strings.Index, slices and white space of Go strings    *)
(***************************************************************************)
UpperCase == "ABCDEFGHIJKLMNOPQRSTUVWXYZẞ"
LowerCase == "abcdefghijklmnopqrstuvwxyzß"

\* unicode.ToLower of a character: the ASCII letters, and U+1E9E (the capital
\* sharp s, three bytes), whose lower case is U+00DF (two bytes)
LowerOf(c) ==
    IF \E k \in 1..Len(UpperCase) : At(UpperCase, k) = c
    THEN At(LowerCase, CHOOSE k \in 1..Len(UpperCase) : At(UpperCase, k) = c)
    ELSE c

\* s[i..j] rewritten character by character.  "lower": strings.ToLower;
\* "spaces": extractSnippet, lines 643-648, newlines and tabs become spaces
\* and of a run of spaces the first is kept
RECURSIVE Rewrite(_, _, _, _)
Rewrite(s, i, j, how) ==
    IF i > j THEN ""
    ELSE IF i = j
    THEN IF how = "lower" THEN LowerOf(At(s, i))
         ELSE IF At(s, i) \notin {" ", "\n", "\t"} THEN At(s, i)
         ELSE IF At(s, i - 1) \in {" ", "\n", "\t"} THEN ""
         ELSE " "
    ELSE Rewrite(s, i, (i + j) \div 2, how) \o Rewrite(s, (i + j) \div 2 + 1, j, how)

ToLower(s) == Rewrite(s, 1, Len(s), "lower")

\* the position (from 1) of the first occurrence of sub in s, 0 when none
FirstAt(s, sub) ==
    IF sub = "" THEN 1
    ELSE IF \E p \in 1..(Len(s) - Len(sub) + 1) : HasPrefixAt(s, p, sub)
    THEN CHOOSE p \in 1..(Len(s) - Len(sub) + 1) :
            /\ HasPrefixAt(s, p, sub)
            /\ \A q \in 1..(p - 1) : ~HasPrefixAt(s, q, sub)
    ELSE 0

\* strings.Contains
Contains(s, sub) == FirstAt(s, sub) # 0

\* strings.Index: the offset in bytes of the first occurrence, -1 when none
Index(s, sub) ==
    IF FirstAt(s, sub) = 0 THEN -1 ELSE ByteLenRange(s, 1, FirstAt(s, sub) - 1)

\* s[a:b], for 0 <= a <= b <= len(s): the characters within the bytes a..b-1;
\* a character cut by the slice leaves bytes that are no character ("\\x")
ByteSlice(s, a, b) ==
    Let(CHOOSE k \in 0..Len(s) :
            /\ ByteLenRange(s, 1, k) >= a
            /\ k > 0 => ByteLenRange(s, 1, k - 1) < a, LAMBDA lo :
    Let(CHOOSE k \in 0..Len(s) :
            /\ ByteLenRange(s, 1, k) <= b
            /\ k < Len(s) => ByteLenRange(s, 1, k + 1) > b, LAMBDA hi :
        (IF ByteLenRange(s, 1, lo) > a /\ a > 0 THEN "\\x" ELSE "")
        \o SubSeq(s, lo + 1, hi)
        \o (IF ByteLenRange(s, 1, hi) < b /\ hi >= lo THEN "\\x" ELSE "")))

\* strings.TrimSpace
TrimSpaceString(s) ==
    Let(RunEnd(s, 1, SpaceChar), LAMBDA lo :
        IF lo > Len(s) THEN ""
        ELSE SubSeq(s, lo, CHOOSE hi \in lo..Len(s) :
                              /\ At(s, hi) \notin SpaceChar
                              /\ \A k \in (hi + 1)..Len(s) : At(s, k) \in SpaceChar))

Max(a, b) == IF a > b THEN a ELSE b
Min(a, b) == IF a < b THEN a ELSE b

(***************************************************************************)
(* SearchSessions                                                          *)
(***************************************************************************)
\* extractSnippet, lines 622-660
extractSnippet(text, query, contextChars) ==
    Let(Index(ToLower(text), ToLower(query)), LAMBDA at :
        IF at = -1 THEN ""
        ELSE Let(Max(at - contextChars, 0), LAMBDA start :
             Let(Min(at + ByteLen(query) + contextChars, ByteLen(text)), LAMBDA end :
             Let(ByteSlice(text, start, end), LAMBDA cut :
                 (IF start > 0 THEN "..." ELSE "")
                 \o TrimSpaceString(Rewrite(cut, 1, Len(cut), "spaces"))
                 \o (IF end < ByteLen(text) THEN "..." ELSE "")))))

\* searchSessionFile, lines 602-616: the matches of the messages from k on
RECURSIVE MatchesFrom(_, _, _, _)
MatchesFrom(msgs, k, query, acc) ==
    IF k > Len(msgs) THEN acc
    ELSE Let(ExtractText(msgs[k]), LAMBDA text :
         Let(IF Contains(ToLower(text), query) THEN extractSnippet(text, query, 60) ELSE "",
             LAMBDA snippet :
             MatchesFrom(msgs, k + 1, query,
                         IF snippet # ""
                         THEN Append(acc, [Text |-> snippet, Context |-> msgs[k].Role])
                         ELSE acc)))

searchSessionFile(msgs, query) == MatchesFrom(msgs, 1, query, <<>>)

Queries == {"burrito", "BURRITO", "Bug", "zebra", "\t", ""}

InitSearch ==
    /\ \E fs \in FileLists(MaxFiles), q \in Queries :
          search = [NoSearch EXCEPT !.Files = fs, !.at = "SearchSessions",
                                    !.asked = q, !.query = q]
    /\ batch = NoBatch
    /\ cli = NoCLI
    /\ out = NoOut
    /\ src = [lay |-> "file", pad |-> FALSE, es |-> <<>>]
    /\ data = <<>>
    /\ pc = "idle"
    /\ buf = <<>>
    /\ mode = ""
    /\ lines = <<>>
    /\ messages = <<>>
    /\ session = <<>>
    /\ idx = 1
    /\ err = ""
    /\ gi = 1
    /\ current = <<>>
    /\ conversations = <<>>
    /\ repoURL = ""
    /\ items = <<>>
    /\ totals = ZeroTotals
    /\ ci = 0

\* SearchSessions, lines 525-533: the projects directory is there
SearchStart ==
    /\ search.at = "SearchSessions"
    /\ search' = [search EXCEPT !.query = ToLower(@), !.fi = 1, !.at = "WalkDir"]
    /\ UNCHANGED <<src, batch, cli, out>>
    /\ UNCHANGED parseVars
    /\ UNCHANGED generatorVars

\* SearchSessions, lines 542-544: a file that is not named .jsonl
WalkSkips ==
    /\ search.at = "WalkDir"
    /\ search.fi <= Len(search.Files)
    /\ TrimSuffix(SessionFiles[search.Files[search.fi]].name, ".jsonl")
          = SessionFiles[search.Files[search.fi]].name
    /\ search' = [search EXCEPT !.fi = @ + 1]
    /\ UNCHANGED <<src, batch, cli, out>>
    /\ UNCHANGED parseVars
    /\ UNCHANGED generatorVars

\* SearchSessions, line 552, and searchSessionFile, lines 595-598
WalkParse ==
    /\ search.at = "WalkDir"
    /\ search.fi <= Len(search.Files)
    /\ TrimSuffix(SessionFiles[search.Files[search.fi]].name, ".jsonl")
          # SessionFiles[search.Files[search.fi]].name
    /\ ParseFileStarts(search.Files[search.fi])
    /\ search' = [search EXCEPT !.at = "ParseFile"]
    /\ UNCHANGED <<src, batch, cli, out>>
    /\ UNCHANGED generatorVars

\* SearchSessions, lines 565-577: the result of a file
SearchResult(f, matches) ==
    [Path |-> SessionFiles[f].name,
     SessionID |-> TrimSuffix(SessionFiles[f].name, ".jsonl"),
     ModTime |-> SessionFiles[f].modTime,
     Matches |-> matches]

\* searchSessionFile, lines 600-618, and SearchSessions, lines 552-580
WalkSearched ==
    /\ search.at = "ParseFile"
    /\ pc = "done"
    /\ \E matches \in {IF err # "" THEN <<>> ELSE searchSessionFile(session, search.query)} :
          search' = [search EXCEPT
                        !.matches = matches,
                        !.results = IF Len(matches) = 0 THEN @
                                    ELSE Append(@, SearchResult(search.Files[search.fi], matches)),
                        !.fi = @ + 1,
                        !.at = "WalkDir"]
    /\ pc' = "idle"
    /\ UNCHANGED <<src, batch, cli, out, data, buf, mode, lines, messages, session, idx, err>>
    /\ UNCHANGED generatorVars

\* sort.Slice(results, less) with less = ModTime.After, which is not stable:
\* any arrangement in which no result is newer than a result before it
NewestFirst(rs) ==
    {[k \in 1..Len(rs) |-> rs[p[k]]] :
        p \in {q \in [1..Len(rs) -> 1..Len(rs)] :
                 /\ \A a, b \in 1..Len(rs) : a # b => q[a] # q[b]
                 /\ \A a, b \in 1..Len(rs) :
                       a < b => ~(rs[q[b]].ModTime > rs[q[a]].ModTime)}}

\* SearchSessions, lines 582-590
SearchSort ==
    /\ search.at = "WalkDir"
    /\ search.fi > Len(search.Files)
    /\ \E sorted \in NewestFirst(search.results) :
          search' = [search EXCEPT !.results = sorted, !.at = "end"]
    /\ UNCHANGED <<src, batch, cli, out>>
    /\ UNCHANGED parseVars
    /\ UNCHANGED generatorVars

NextSearch ==
    \/ SearchStart
    \/ WalkSkips
    \/ WalkParse
    \/ ParseTrim
    \/ ParseDetect
    \/ ScanLine
    \/ ScanEnd
    \/ ParseJSON
    \/ ParseMessagesStep
    \/ ParseMessagesEnd
    \/ WalkSearched
    \/ SearchSort

SpecSearch == InitSearch /\ [][NextSearch]_vars

(***************************************************************************)
(* extractSnippet on its own: texts with the word "Burrito" between two    *)
(* stretches of a filler, of lengths around the 60 bytes of context        *)
(***************************************************************************)
\* how far over the 60 bytes of context the stretches go
MaxOver == 1

Pads == {0, 1} \cup (59..(60 + MaxOver))

Fillers == {"a", "é", "ẞ", "aé", " ", "a \n\t b", "burrito "}

\* the first n characters of f repeated
Stretch(f, n) == SubSeq(Repeat(f, n), 1, n)

SnippetQueries == {"burrito", "BURRITO", "zebra"}

InitSnippet ==
    /\ \E f \in Fillers, n \in Pads, m \in Pads, q \in SnippetQueries :
          /\ session = <<[ZeroMessage EXCEPT
                             !.Role = "user",
                             !.Content = <<TextBlockOf(Stretch(f, n) \o "Burrito"
                                                       \o Stretch(f, m))>>]>>
          /\ search = [NoSearch EXCEPT !.at = "extractSnippet", !.asked = q, !.query = q]
    /\ batch = NoBatch
    /\ cli = NoCLI
    /\ out = NoOut
    /\ src = [lay |-> "direct", pad |-> FALSE, es |-> <<>>]
    /\ data = <<>>
    /\ pc = "idle"
    /\ buf = <<>>
    /\ mode = ""
    /\ lines = <<>>
    /\ messages = <<>>
    /\ idx = 1
    /\ err = ""
    /\ gi = 1
    /\ current = <<>>
    /\ conversations = <<>>
    /\ repoURL = ""
    /\ items = <<>>
    /\ totals = ZeroTotals
    /\ ci = 0

\* extractSnippet(text, query, 60), as searchSessionFile calls it (line 608)
SnippetExtract ==
    /\ search.at = "extractSnippet"
    /\ \E snippet \in {extractSnippet(ExtractText(session[1]), search.query, 60)} :
          search' = [search EXCEPT
                        !.matches = <<[Text |-> snippet, Context |-> session[1].Role]>>,
                        !.at = "snippet"]
    /\ UNCHANGED <<src, batch, cli, out>>
    /\ UNCHANGED parseVars
    /\ UNCHANGED generatorVars

NextSnippet == SnippetExtract

SpecSnippet == InitSnippet /\ [][NextSnippet]_vars

(***************************************************************************)
(* C19: Generator.Generate returns ErrNoConversations exactly when the     *)
(* session has no message of role "user" (its output directory being       *)
(* there); in a batch run that error, like a parse error of one session    *)
(* file, does not abort the batch: the remaining sessions of the project   *)
(* are still processed, and the index of the project (its directory being  *)
(* there) and the master index are still written.                          *)
(***************************************************************************)
\* Generate has returned to generateProject, or has its index data and goes
\* on to write the pages
GenerateReturned == batch.at = "gen.Generate" /\ pc \in {"done", "indexed"}

\* the files of project p the batch has taken, in order
Taken(p) ==
    [k \in 1..Len(SelectSeq(batch.log, LAMBDA e : e.project = p)) |->
        SelectSeq(batch.log, LAMBDA e : e.project = p)[k].file]

StandsAt(text, p, q) ==
    \A k \in 1..Len(q) : LowerOf(At(text, p + k - 1)) = LowerOf(At(q, k))

\* the file holds a message whose text contains q, letter case aside
FileHolds(f, q) ==
    \E m \in 1..Len(SessionFiles[f].says) :
        \E p \in 1..(Len(SessionFiles[f].says[m].text) - Len(q) + 1) :
            StandsAt(SessionFiles[f].says[m].text, p, q)

IsSessionFile(f) == HasPrefixAt(SessionFiles[f].name, Len(SessionFiles[f].name) - 5, ".jsonl")

ResultPaths == [k \in 1..Len(search.results) |-> search.results[k].Path]

Searched == search.at = "end"

C20_OneResultPerMatchingFile ==
    Searched =>
        /\ \A k \in 1..Len(search.Files) :
              IsSessionFile(search.Files[k]) =>
                 Count(ResultPaths, SessionFiles[search.Files[k]].name)
                    = IF FileHolds(search.Files[k], search.asked) THEN 1 ELSE 0
        /\ \A path \in Range(ResultPaths) : Count(ResultPaths, path) = 1

(***************************************************************************)
(* C21: within one session, searchSessionFile yields exactly one match for *)
(* each message whose extracted text contains the query, letter case       *)
(* aside, in message order and whatever the role; none of them is dropped  *)
(* or merged with another, and a message that contains the query several   *)
(* times yields one match.                                                 *)
(***************************************************************************)
\* the text contains q, letter case aside
Holds(text, q) == \E p \in 1..(Len(text) - Len(q) + 1) : StandsAt(text, p, q)

\* the messages of the session whose text contains q, in order
Containing(msgs, q) == SelectSeq(msgs, LAMBDA m : Holds(ExtractText(m), q))

\* searchSessionFile has returned the matches of the session just decoded
FileSearched ==
    /\ search.at = "WalkDir"
    /\ search.fi > 1
    /\ IsSessionFile(search.Files[search.fi - 1])
    /\ err = ""

C21_OneMatchPerContainingMessage ==
    FileSearched =>
        /\ Len(search.matches) = Len(Containing(session, search.asked))
        /\ \A k \in 1..Len(search.matches) :
              /\ k <= Len(Containing(session, search.asked))
              /\ search.matches[k].Context = Containing(session, search.asked)[k].Role
              /\ search.matches[k].Text
                    = extractSnippet(ExtractText(Containing(session, search.asked)[k]),
                                     search.asked, 60)

\* the same, for the sessions no message of which is white space only
C21_ExceptBlankTexts ==
    (\A k \in 1..Len(session) : TrimSpaceString(ExtractText(session[k])) # "")
        => C21_OneMatchPerContainingMessage

\* two messages with the same snippet, both kept
C21_SameSnippetTwice ==
    /\ FileSearched
    /\ search.asked = "burrito"
    /\ Len(session) = 3
    /\ search.matches = <<[Text |-> "No BURRITO here", Context |-> "assistant"],
                          [Text |-> "No BURRITO here", Context |-> "assistant"]>>

\* a message that holds the query twice, one match
C21_TwiceInOneMessage ==
    /\ FileSearched
    /\ search.asked = "Bug"
    /\ search.matches = <<[Text |-> "Fix the Burrito bug", Context |-> "user"],
                          [Text |-> "Done: the burrito bug is a fixed bug",
                           Context |-> "assistant"]>>

(***************************************************************************)
(* C22: extractSnippet(text, query, 60), for a text that contains query    *)
(* (letter case aside), is a window of text that covers the first          *)
(* occurrence of query, with at most 60 characters before it and at most   *)
(* 60 after it; it starts with "..." exactly when the window does not      *)
(* start at the beginning of text and ends with "..." exactly when the     *)
(* window does not reach the end of text; between the ellipses there is no *)
(* newline, no tab and no run of two or more spaces.                       *)
(***************************************************************************)
\* the position of the first occurrence of q in text, letter case aside
FirstPos(text, q) ==
    CHOOSE p \in 1..(Len(text) - Len(q) + 1) :
        /\ StandsAt(text, p, q)
        /\ \A r \in 1..(p - 1) : ~StandsAt(text, r, q)

Ellipsis(yes) == IF yes THEN "..." ELSE ""

\* s without its white space
NonSpace(s) == SelectSeq(s, LAMBDA c : c \notin {" ", "\n", "\t"})

\* s without the bytes of a character cut in two at either end
Whole(s) ==
    SubSeq(s, IF HasPrefixAt(s, 1, "\\x") THEN 3 ELSE 1,
              IF Len(s) >= 4 /\ HasPrefixAt(s, Len(s) - 1, "\\x") THEN Len(s) - 2 ELSE Len(s))

Tidy(s) ==
    \A k \in 1..Len(s) :
        /\ At(s, k) \notin {"\n", "\t"}
        /\ ~(At(s, k) = " " /\ At(s, k + 1) = " ")

\* result is text[a..b], its white space tidied, with the ellipses of a window
\* that starts after the beginning (before) and ends before the end (after)
IsWindow(result, text, p, q, before, after) ==
    /\ Len(result) >= Len(Ellipsis(before)) + Len(Ellipsis(after))
    /\ HasPrefixAt(result, 1, Ellipsis(before))
    /\ HasPrefixAt(result, Len(result) - Len(Ellipsis(after)) + 1, Ellipsis(after))
    /\ Let(SubSeq(result, Len(Ellipsis(before)) + 1, Len(result) - Len(Ellipsis(after))),
           LAMBDA body :
           /\ Tidy(body)
           /\ Let(NonSpace(Whole(body)), LAMBDA kept :
                  \E a \in Max(1, p - 60)..p :
                     /\ (a > 1) = before
                     /\ \E b \in (p + Len(q) - 1)..Min(Len(text), p + Len(q) - 1 + 60) :
                           /\ (b < Len(text)) = after
                           /\ b - a + 1 >= Len(kept)
                           /\ NonSpace(SubSeq(text, a, b)) = kept))

IsSnippet(result, text, q) ==
    \E before \in BOOLEAN, after \in BOOLEAN :
        IsWindow(result, text, FirstPos(text, q), q, before, after)

Extracted == search.at = "snippet"

C22_SnippetIsWindowAroundFirstMatch ==
    (Extracted /\ Holds(ExtractText(session[1]), search.asked))
        => IsSnippet(search.matches[1].Text, ExtractText(session[1]), search.asked)

\* the text is in ASCII
IsASCII(s) == ByteLen(s) = Len(s)

\* the same, for the texts whose lower case has as many bytes as they have
C22_ExceptShrinkingLowerCase ==
    ByteLen(ToLower(ExtractText(session[1]))) = ByteLen(ExtractText(session[1]))
        => C22_SnippetIsWindowAroundFirstMatch

\* context cut on both sides
C22_BothEllipses ==
    /\ Extracted
    /\ search.asked = "BURRITO"
    /\ search.matches[1].Text = "..." \o Repeat("a", 60) \o "Burrito" \o Repeat("a", 60) \o "..."

\* the whole text
C22_NoEllipsis ==
    /\ Extracted
    /\ search.asked = "burrito"
    /\ search.matches[1].Text = Repeat("a", 60) \o "Burrito" \o Repeat("a", 60)

\* the window slides off the occurrence
C22_Misplaced ==
    /\ Extracted
    /\ search.asked = "burrito"
    /\ ExtractText(session[1]) = Repeat("ẞ", 61) \o "Burrito"
    /\ search.matches[1].Text = "...\\x" \o Repeat("ẞ", 40) \o "Burrit..."

(***************************************************************************)
(* reorderArgs (cli.go)                                                    *)
(***************************************************************************)
\* the largest number of arguments given to reorderArgs
MaxArgs == 4

valueFlagsShortOnly == {"-o"}

\* lines 27-30
valueFlags == {"-o", "--output", "--limit", "--max-matches"}

\* lines 33-44: the loop from args[i] on (i from 1)
RECURSIVE ReorderFrom(_, _, _, _)
ReorderFrom(args, i, flags, positional) ==
    IF i > Len(args) THEN flags \o positional
    ELSE IF HasPrefixAt(args[i], 1, "-")
    THEN IF ~Contains(args[i], "=") /\ args[i] \in valueFlags /\ i + 1 <= Len(args)
         THEN ReorderFrom(args, i + 2, flags \o <<args[i], args[i + 1]>>, positional)
         ELSE ReorderFrom(args, i + 1, Append(flags, args[i]), positional)
    ELSE ReorderFrom(args, i + 1, flags, Append(positional, args[i]))

reorderArgs(args) == ReorderFrom(args, 1, <<>>, <<>>)

ReorderTokens ==
    {"-o", "--output", "--limit", "--output=dir", "--gist", "-", "file.jsonl", "dir"}

InitReorder ==
    /\ \E n \in 0..MaxArgs : \E args \in [1..n -> ReorderTokens] :
          cli = [at |-> "reorderArgs", args |-> args, result |-> <<>>]
    /\ batch = NoBatch
    /\ search = NoSearch
    /\ out = NoOut
    /\ src = [lay |-> "args", pad |-> FALSE, es |-> <<>>]
    /\ data = <<>>
    /\ pc = "idle"
    /\ buf = <<>>
    /\ mode = ""
    /\ lines = <<>>
    /\ messages = <<>>
    /\ session = <<>>
    /\ idx = 1
    /\ err = ""
    /\ gi = 1
    /\ current = <<>>
    /\ conversations = <<>>
    /\ repoURL = ""
    /\ items = <<>>
    /\ totals = ZeroTotals
    /\ ci = 0

\* reorderArgs(args), lines 26-46
Reorder ==
    /\ cli.at = "reorderArgs"
    /\ cli' = [cli EXCEPT !.result = reorderArgs(cli.args), !.at = "reordered"]
    /\ UNCHANGED <<src, batch, search, out>>
    /\ UNCHANGED parseVars
    /\ UNCHANGED generatorVars

NextReorder == Reorder

SpecReorder == InitReorder /\ [][NextReorder]_vars

(***************************************************************************)
(* C27: reorderArgs returns a permutation of its input in which every flag *)
(* token (a token that starts with '-', and the token that follows a       *)
(* value-taking flag -o, --output, --limit or --max-matches written        *)
(* without '=') precedes every positional token; the flag tokens keep      *)
(* their relative order and so do the positional tokens.                   *)
(***************************************************************************)
ValueTaking == {"-o", "--output", "--limit", "--max-matches"}

\* args[i] is the value of the value-taking flag before it
RECURSIVE IsValueAt(_, _)
IsValueAt(args, i) ==
    /\ i > 1
    /\ args[i - 1] \in ValueTaking
    /\ ~IsValueAt(args, i - 1)

IsFlagTokenAt(args, i) == IsValueAt(args, i) \/ At(args[i], 1) = "-"

\* the tokens of args at the places of which want holds, in order
TokensWhere(args, want(_)) ==
    [k \in 1..Cardinality({i \in 1..Len(args) : want(i)}) |->
        args[CHOOSE i \in 1..Len(args) :
                /\ want(i)
                /\ Cardinality({j \in 1..i : want(j)}) = k]]

Reordered == cli.at = "reordered"

C27_FlagsBeforePositionals ==
    Reordered =>
        cli.result = TokensWhere(cli.args, LAMBDA i : IsFlagTokenAt(cli.args, i))
                     \o TokensWhere(cli.args, LAMBDA i : ~IsFlagTokenAt(cli.args, i))

C27_Witness ==
    /\ Reordered
    /\ cli.args = <<"dir", "-o", "file.jsonl", "--gist">>
    /\ cli.result = <<"-o", "file.jsonl", "--gist", "dir">>

(***************************************************************************)
(* The flag package, as the commands of cli.go use it: flag.NewFlagSet     *)
(* with ExitOnError, fs.Parse(reorderArgs(args)).                          *)
(***************************************************************************)
\* flags of every command (lines 108-112), and of one command only
BoolFlags == {"gist", "zip", "no-open"}
StringFlags == {"o", "output"}
IntFlags(cmd) ==
    IF cmd = "local" THEN {"limit"} ELSE IF cmd = "search" THEN {"max-matches"} ELSE {}

\* line 113: the default of --limit
DefaultLimit == 30

\* line 210: the default of --max-matches
DefaultMaxMatches == 3

\* the flag values of a command before parsing
ZeroFlags ==
    [outputDir |-> "", uploadGist |-> FALSE, createZip |-> FALSE, noOpen |-> FALSE,
     limit |-> DefaultLimit, maxMatches |-> DefaultMaxMatches,
     rest |-> <<>>, exit |-> ""]

\* strconv.ParseBool, strconv.Atoi of the tokens used here; "" when no value
BoolOf(v) == IF v \in {"1", "t", "true"} THEN "true"
             ELSE IF v \in {"0", "f", "false"} THEN "false" ELSE ""
Numbers == <<"0", "1", "2", "25">>
IsNumber(v) == \E k \in 1..Len(Numbers) : Numbers[k] = v
IntOf(v) == IF v = "25" THEN 25 ELSE IF v = "2" THEN 2 ELSE IF v = "1" THEN 1 ELSE 0

\* fv.Set(value) for the flag name
SetFlag(cmd, st, name, value) ==
    IF name \in StringFlags THEN [st EXCEPT !.outputDir = value]
    ELSE IF name \in BoolFlags
    THEN IF BoolOf(value) = "" THEN [st EXCEPT !.exit = "exit 2"]
         ELSE IF name = "gist" THEN [st EXCEPT !.uploadGist = (BoolOf(value) = "true")]
         ELSE IF name = "zip" THEN [st EXCEPT !.createZip = (BoolOf(value) = "true")]
         ELSE [st EXCEPT !.noOpen = (BoolOf(value) = "true")]
    ELSE IF ~IsNumber(value) THEN [st EXCEPT !.exit = "exit 2"]
    ELSE IF name = "limit" THEN [st EXCEPT !.limit = IntOf(value)]
    ELSE [st EXCEPT !.maxMatches = IntOf(value)]

\* FlagSet.Parse and parseOne, from args[k] on
RECURSIVE ParseFlags(_, _, _, _)
ParseFlags(cmd, args, k, st) ==
    IF st.exit # "" THEN st
    ELSE IF k > Len(args) THEN st
    ELSE IF Len(args[k]) < 2 \/ At(args[k], 1) # "-"
    THEN [st EXCEPT !.rest = SubSeq(args, k, Len(args))]
    ELSE IF args[k] = "--" THEN [st EXCEPT !.rest = SubSeq(args, k + 1, Len(args))]
    ELSE Let(SubSeq(args[k], IF At(args[k], 2) = "-" THEN 3 ELSE 2, Len(args[k])),
             LAMBDA full :
         IF full = "" \/ At(full, 1) \in {"-", "="} THEN [st EXCEPT !.exit = "exit 2"]
         ELSE Let(FirstAt(SubSeq(full, 2, Len(full)), "="), LAMBDA eq :
              Let(IF Len(full) >= 2 /\ eq > 0 THEN SubSeq(full, 1, eq) ELSE full,
                  LAMBDA name :
                  IF name \notin BoolFlags \cup StringFlags \cup IntFlags(cmd)
                  THEN [st EXCEPT !.exit = IF name \in {"help", "h"} THEN "exit 0"
                                           ELSE "exit 2"]
                  ELSE IF Len(full) >= 2 /\ eq > 0
                  THEN ParseFlags(cmd, args, k + 1,
                                  SetFlag(cmd, st, name, SubSeq(full, eq + 2, Len(full))))
                  ELSE IF name \in BoolFlags
                  THEN ParseFlags(cmd, args, k + 1, SetFlag(cmd, st, name, "true"))
                  ELSE IF k + 1 > Len(args) THEN [st EXCEPT !.exit = "exit 2"]
                  ELSE ParseFlags(cmd, args, k + 2,
                                  SetFlag(cmd, st, name, args[k + 1])))))

\* fs.Parse(reorderArgs(args))
FlagsOf(cmd, args) == ParseFlags(cmd, reorderArgs(args), 1, ZeroFlags)

\* filepath.Base of a path without a trailing separator
Base(path) ==
    IF \E k \in 1..Len(path) : At(path, k) = "/"
    THEN SubSeq(path, 1 + CHOOSE k \in 1..Len(path) :
                            /\ At(path, k) = "/"
                            /\ \A j \in (k + 1)..Len(path) : At(path, j) # "/",
                Len(path))
    ELSE path

(***************************************************************************)
(* The projects directory, as filepath.WalkDir visits it: entry 1 is the   *)
(* directory of the project, entry 4 a file that is no session, the others *)
(* are session files.  Of a session file the walk gives the modification   *)
(* time, and GetSessionDetails the time of its last message (0: the zero   *)
(* time, or the file does not parse).                                      *)
(***************************************************************************)
ModTimeOf(k) == IF k = 3 THEN 15 ELSE ((k * 7) % 37) + 1

EndTimeOf(k) == IF k % 3 = 0 THEN 0 ELSE IF k = 7 THEN 125 ELSE 100 + ((k * 5) % 41)

WalkEntry(k) ==
    [kind |-> IF k = 1 THEN "dir" ELSE IF k = 4 THEN "other" ELSE "session",
     Path |-> IF k = 1 THEN "proj"
              ELSE IF k = 4 THEN "proj/notes.md"
              ELSE "proj/" \o ToString(k) \o ".jsonl",
     ModTime |-> ModTimeOf(k),
     ends |-> EndTimeOf(k)]

\* the walks: of an empty directory, and of 0, 2, 21 and 31 session files
Walks == {0, 1, 3, 23, 33}

LargestWalk == CHOOSE n \in Walks : \A m \in Walks : m <= n

\* the entries of the largest walk
Entries == [k \in 1..LargestWalk |-> WalkEntry(k)]

\* lines 264-297: the SessionInfo of the session files, in the order of the walk
WalkedSessions(n) ==
    Let(SelectSeq(SubSeq(Entries, 1, n),
                  LAMBDA e : e.kind # "dir" /\ TrimSuffix(e.Path, ".jsonl") # e.Path),
        LAMBDA es :
        [k \in 1..Len(es) |-> [Path |-> es[k].Path, ModTime |-> es[k].ModTime, EndTime |-> 0]])

\* sort.Slice(ss, less) with less(i, j) = key(ss[i]) > key(ss[j]), which is
\* not stable: of two elements with the same key either may come first
\* (keep: they stay as they are; the keys here have one tie at most)
Sorted(ss, key(_), keep) ==
    Let([j \in 1..Len(ss) |-> key(ss[j])], LAMBDA ks :
        [r \in 1..Len(ss) |->
            ss[CHOOSE i \in 1..Len(ss) :
                  r = 1 + Cardinality({j \in 1..Len(ss) :
                              \/ ks[j] > ks[i]
                              \/ /\ ks[j] = ks[i]
                                 /\ IF keep THEN j < i ELSE j > i})]])

SortOrders(ss, key(_)) == Let(ss, LAMBDA xs : {Sorted(xs, key, keep) : keep \in BOOLEAN})

\* lines 310-312
ApplyLimit(ss, limit) ==
    IF limit > 0 /\ Len(ss) > limit THEN SubSeq(ss, 1, limit) ELSE ss

\* lines 305-307: the sessions of each walk, newest first
SortedByModTime ==
    [n \in Walks |-> SortOrders(WalkedSessions(n), LAMBDA s : s.ModTime)]

\* FindLocalSessions(limit) on the walk of n entries: what it may return
FindLocalSessions(n, limit) ==
    {ApplyLimit(sorted, limit) : sorted \in SortedByModTime[n]}

\* LoadSessionSummaries, lines 482-491: the details of the sessions
WithDetails(ss) ==
    [k \in 1..Len(ss) |->
        [ss[k] EXCEPT !.EndTime =
            Entries[CHOOSE j \in 1..LargestWalk : Entries[j].Path = ss[k].Path].ends]]

\* LoadSessionSummaries, lines 493-506
LoadSessionSummaries(ss) ==
    SortOrders(WithDetails(ss),
               LAMBDA s : IF s.EndTime = 0 THEN s.ModTime ELSE s.EndTime)

(***************************************************************************)
(* Run, the commands local, json, web and search, and exportSession        *)
(***************************************************************************)
\* the largest number of arguments after the command word
MaxCliArgs == 3

CliTokens ==
    {"-o", "out", "--output=out", "--gist", "--zip", "--no-open", "d/s.jsonl",
     "--limit", "25", "https://h/s.jsonl"}

Commands == {"local", "json", "web", "search"}

\* a command that has not started
NewCLI ==
    [at |-> "Run", argv |-> <<>>, cmd |-> "", flags |-> ZeroFlags, walk |-> 0,
     sessions |-> <<>>, path |-> "", uploadGist |-> FALSE,
     openBrowser |-> FALSE, uploads |-> 0, opened |-> 0, saved |-> {}, zipped |-> {},
     ret |-> "", exit |-> ""]

InitCLI ==
    /\ \E n \in 0..MaxCliArgs : \E args \in [1..n -> CliTokens] :
       \E word \in {<<>>} \cup {<<c>> : c \in Commands} :
          cli = [NewCLI EXCEPT !.argv = word \o args]
    /\ batch = NoBatch
    /\ search = NoSearch
    /\ out = NoOut
    /\ src = [lay |-> "args", pad |-> FALSE, es |-> <<>>]
    /\ data = <<>>
    /\ pc = "idle"
    /\ buf = <<>>
    /\ mode = ""
    /\ lines = <<>>
    /\ messages = <<>>
    /\ session = <<>>
    /\ idx = 1
    /\ err = ""
    /\ gi = 1
    /\ current = <<>>
    /\ conversations = <<>>
    /\ repoURL = ""
    /\ items = <<>>
    /\ totals = ZeroTotals
    /\ ci = 0

cliFrame ==
    /\ UNCHANGED <<src, batch, search, out>>
    /\ UNCHANGED parseVars
    /\ UNCHANGED generatorVars

\* the command returns err ("" for nil)
Returns(c, e) == [c EXCEPT !.at = "returned", !.ret = e]

\* exportSession(path, outputDir, uploadGist, createZip, !noOpen) is called
\* (the list of runLocal is not passed on)
CallsExport(c, path) ==
    [c EXCEPT !.at = "exportSession", !.path = path, !.sessions = <<>>,
              !.uploadGist = c.flags.uploadGist, !.openBrowser = ~c.flags.noOpen]

\* Run, lines 49-75, and the command up to fs.Parse and its use of fs.Arg(0)
\* (runLocal 107-117, runJSON 139-160, runWeb 164-181, runSearch 204-222)
CliRun ==
    /\ cli.at = "Run"
    /\ \E cmd \in {IF cli.argv # <<>> /\ cli.argv[1] \in Commands THEN cli.argv[1]
                   ELSE "local"} :
       \E st \in {FlagsOf(cmd, IF cli.argv # <<>> /\ cli.argv[1] \in Commands
                               THEN Tail(cli.argv) ELSE cli.argv)} :
          cli' = Let([cli EXCEPT !.cmd = cmd, !.flags = st], LAMBDA c :
                     IF st.exit # "" THEN [c EXCEPT !.at = "exited", !.exit = st.exit]
                     ELSE IF cmd = "local" THEN [c EXCEPT !.at = "FindLocalSessions"]
                     ELSE IF st.rest = <<>> THEN Returns(c, "usage")
                     ELSE IF cmd = "web" THEN [c EXCEPT !.at = "FetchSession"]
                     ELSE IF cmd = "search" THEN [c EXCEPT !.at = "SearchSessions"]
                     ELSE IF HasPrefixAt(st.rest[1], 1, "http://")
                             \/ HasPrefixAt(st.rest[1], 1, "https://")
                     THEN [c EXCEPT !.at = "exportURL"]
                     ELSE CallsExport(c, st.rest[1]))
    /\ cliFrame

\* runLocal, lines 119-126
CliFindLocal ==
    /\ cli.at = "FindLocalSessions"
    /\ \E n \in Walks : \E sessions \in FindLocalSessions(n, cli.flags.limit) :
          cli' = IF sessions = <<>>
                 THEN Returns([cli EXCEPT !.walk = n], "no sessions found")
                 ELSE [cli EXCEPT !.walk = n, !.sessions = sessions,
                                  !.at = "LoadSessionSummaries"]
    /\ cliFrame

\* runLocal, line 128
CliLoadSummaries ==
    /\ cli.at = "LoadSessionSummaries"
    /\ \E sessions \in LoadSessionSummaries(cli.sessions) :
          cli' = [cli EXCEPT !.sessions = sessions, !.at = "selectSession"]
    /\ cliFrame

\* runLocal, lines 130-135, and selectSession: the user quits or types
\* something that is no number of the list
CliSelectNone ==
    /\ cli.at = "selectSession"
    /\ \E e \in {"cancelled", "invalid selection"} : cli' = Returns(cli, e)
    /\ cliFrame

\* runLocal, lines 130-135, and selectSession: the user picks a session (the
\* first or the last of the list)
CliSelect ==
    /\ cli.at = "selectSession"
    /\ \E k \in {1, Len(cli.sessions)} : cli' = CallsExport(cli, cli.sessions[k].Path)
    /\ cliFrame

\* runWeb, lines 183-198, and exportURL, lines 484-510: nothing fetched, or
\* no temporary file
CliFetchFails ==
    /\ cli.at \in {"FetchSession", "exportURL"}
    /\ \E e \in {"fetching", "creating temp file", "writing temp file"} :
          cli' = Returns(cli, e)
    /\ cliFrame

\* runWeb, lines 183-200, and exportURL, lines 484-512: the session is in a
\* temporary file
CliFetched ==
    /\ cli.at \in {"FetchSession", "exportURL"}
    /\ cli' = CallsExport(cli, "/tmp/session-1.jsonl")
    /\ cliFrame

\* runSearch, lines 224-274: no result, or nothing picked
CliSearchNone ==
    /\ cli.at = "SearchSessions"
    /\ \E e \in {"searching sessions", "", "invalid selection"} : cli' = Returns(cli, e)
    /\ cliFrame

\* runSearch, lines 224-277: the user picks a result
CliSearchPicked ==
    /\ cli.at = "SearchSessions"
    /\ cli' = CallsExport(cli, "proj/2.jsonl")
    /\ cliFrame

\* exportSession, lines 292-294
ExportStatFails ==
    /\ cli.at = "exportSession"
    /\ cli' = Returns(cli, "cannot access file")
    /\ cliFrame

\* exportSession, lines 292-307, 340-342 and 358-364: which way it goes
ExportBegin ==
    /\ cli.at = "exportSession"
    /\ cli' = IF cli.flags.createZip THEN [cli EXCEPT !.at = "exportAsZip"]
              ELSE IF ~cli.uploadGist /\ cli.flags.outputDir = ""
              THEN [cli EXCEPT !.uploadGist = TRUE, !.openBrowser = TRUE, !.at = "upload"]
              ELSE IF cli.uploadGist THEN [cli EXCEPT !.at = "upload"]
              ELSE IF cli.flags.outputDir # "" THEN [cli EXCEPT !.at = "copy"]
              ELSE Returns(cli, "")
    /\ cliFrame

\* exportAsZip, lines 367-431
ExportAsZip ==
    /\ cli.at = "exportAsZip"
    /\ \/ \E e \in {"reading session file", "creating output directory",
                    "creating zip file", "adding viewer to zip"} :
             cli' = Returns(cli, e)
       \/ cli' = Returns([cli EXCEPT !.zipped = @ \cup {cli.flags.outputDir}], "")
    /\ cliFrame

\* exportSession, lines 309-324: no temporary copy to upload
UploadNotTried ==
    /\ cli.at = "upload"
    /\ \E e \in {"creating temp directory", "reading source file", "writing temp file"} :
          cli' = Returns(cli, e)
    /\ cliFrame

\* exportSession, lines 328-331: gist.Upload fails
UploadFails ==
    /\ cli.at = "upload"
    /\ cli' = Returns([cli EXCEPT !.uploads = @ + 1], "uploading gist")
    /\ cliFrame

\* exportSession, lines 328-333: the gist is created
Uploaded ==
    /\ cli.at = "upload"
    /\ cli' = [cli EXCEPT !.uploads = @ + 1, !.at = "uploaded"]
    /\ cliFrame

\* exportSession, lines 335-339 and 364: openGistInViewer is called (it may
\* fail, with a warning)
OpenViewer ==
    /\ cli.at = "uploaded"
    /\ cli.openBrowser
    /\ cli' = Returns([cli EXCEPT !.opened = @ + 1], "")
    /\ cliFrame

\* exportSession, lines 335 and 364
SkipViewer ==
    /\ cli.at = "uploaded"
    /\ ~cli.openBrowser
    /\ cli' = Returns(cli, "")
    /\ cliFrame

\* exportSession, lines 343-355: the copy cannot be made
CopyFails ==
    /\ cli.at = "copy"
    /\ \E e \in {"creating output directory", "reading source file",
                 "writing output file"} :
          cli' = Returns(cli, e)
    /\ cliFrame

\* exportSession, lines 343-357 and 364: the session is copied
Copied ==
    /\ cli.at = "copy"
    /\ cli' = Returns([cli EXCEPT !.saved = @ \cup {<<cli.flags.outputDir, Base(cli.path)>>}],
                      "")
    /\ cliFrame

NextCLI ==
    \/ CliRun
    \/ CliFindLocal
    \/ CliLoadSummaries
    \/ CliSelectNone
    \/ CliSelect
    \/ CliFetchFails
    \/ CliFetched
    \/ CliSearchNone
    \/ CliSearchPicked
    \/ ExportStatFails
    \/ ExportBegin
    \/ ExportAsZip
    \/ UploadNotTried
    \/ UploadFails
    \/ Uploaded
    \/ OpenViewer
    \/ SkipViewer
    \/ CopyFails
    \/ Copied

SpecCLI == InitCLI /\ [][NextCLI]_vars

(***************************************************************************)
(* C23: when --no-open is given to the local, json, web or search command, *)
(* the viewer is never opened after the gist upload, on every path through *)
(* exportSession, the default path with neither --gist nor --output        *)
(* included.                                                               *)
(***************************************************************************)
C23_NoOpenNeverOpens == cli.flags.noOpen => cli.opened = 0

\* --no-open is honoured when --gist asks for the upload
C23_HonouredWithGist == (cli.flags.noOpen /\ cli.flags.uploadGist) => cli.opened = 0

\* --no-open and --gist: the gist was created and the command returned
\* without opening the viewer
C23_UploadedNotOpened ==
    /\ cli.flags.noOpen
    /\ cli.flags.uploadGist
    /\ cli.at = "returned"
    /\ cli.ret = ""
    /\ cli.uploads = 1
    /\ cli.opened = 0

\* --no-open on the default path: the viewer was opened
C23_OpenedOnDefaultPath ==
    /\ cli.argv = <<"json", "--no-open", "d/s.jsonl">>
    /\ cli.at = "returned"
    /\ cli.opened = 1

\* the default the README gives for --limit
DocumentedLimit == 20

\* the session files of the walk that runLocal made
Walked == WalkedSessions(cli.walk)

\* no session of ss is newer by key than the one before it
Descending(ss, key(_)) == \A i \in 1..(Len(ss) - 1) : key(ss[i]) >= key(ss[i + 1])

\* the sessions of ss are the most recently modified ones of the walk: no
\* session left out was modified after one of ss
MostRecent(ss) ==
    \A w \in Range(Walked) :
        (\A i \in 1..Len(ss) : ss[i].Path # w.Path) =>
            \A i \in 1..Len(ss) : ss[i].ModTime >= w.ModTime

\* what FindLocalSessions returned is in cli.sessions until the summaries are
\* loaded; the picker is offered cli.sessions
FoundAtMost(n) ==
    cli.at = "LoadSessionSummaries" =>
        /\ Len(cli.sessions) = Min(n, Len(Walked))
        /\ Descending(cli.sessions, LAMBDA s : s.ModTime)

OfferedAtMost(n) ==
    cli.at = "selectSession" => (Len(cli.sessions) <= n /\ MostRecent(cli.sessions))

(***************************************************************************)
(* C24: when the local command is run without --limit, the picker is       *)
(* offered at most 20 sessions, the most recently modified ones; with      *)
(* --limit N (N > 0) at most N sessions are offered, and FindLocalSessions *)
(* returns min(N, total) sessions sorted newest first.                     *)
(***************************************************************************)
C24_PickerOffersDocumentedDefault ==
    IF cli.flags.limit = DefaultLimit
    THEN OfferedAtMost(DocumentedLimit)
    ELSE cli.flags.limit > 0 => (OfferedAtMost(cli.flags.limit) /\ FoundAtMost(cli.flags.limit))

\* the same with the default of the code in place of the documented one
C24_WithTheDefaultOfTheCode ==
    cli.flags.limit > 0 => (OfferedAtMost(cli.flags.limit) /\ FoundAtMost(cli.flags.limit))

\* --limit 25 with 31 sessions: 25 are offered
C24_LimitCuts ==
    /\ cli.at = "selectSession"
    /\ cli.flags.limit = 25
    /\ Len(Walked) = 31
    /\ Len(cli.sessions) = 25

\* no --limit, with 31 sessions: 30 are offered
C24_ThirtyOffered ==
    /\ cli.at = "selectSession"
    /\ cli.flags.limit = DefaultLimit
    /\ Len(Walked) = 31
    /\ Len(cli.sessions) = 30

\* exportSession ran to the end and returned nil
Exported == cli.at = "returned" /\ cli.ret = "" /\ cli.path # ""

(***************************************************************************)
(* C25: whenever --output DIR is given and --zip is not, exportSession     *)
(* saves the session file into DIR under its base name instead of          *)
(* uploading: no gist upload is attempted and the copy exists on success,  *)
(* whatever other flags accompany it.                                      *)
(***************************************************************************)
C25_OutputSavesInsteadOfUploading ==
    (cli.flags.outputDir # "" /\ ~cli.flags.createZip) =>
        /\ cli.uploads = 0
        /\ Exported => <<cli.flags.outputDir, Base(cli.path)>> \in cli.saved

\* the same holds when --gist does not accompany --output
C25_WithoutGist ==
    (cli.flags.outputDir # "" /\ ~cli.flags.createZip /\ ~cli.flags.uploadGist) =>
        /\ cli.uploads = 0
        /\ Exported => <<cli.flags.outputDir, Base(cli.path)>> \in cli.saved

\* json -o out d/s.jsonl: the copy is out/s.jsonl
C25_Saved ==
    /\ cli.argv = <<"json", "-o", "out", "d/s.jsonl">>
    /\ Exported
    /\ cli.saved = {<<"out", "s.jsonl">>}
    /\ cli.uploads = 0

\* json --gist --output=out d/s.jsonl: uploaded, and nothing saved
C25_UploadedNotSaved ==
    /\ cli.argv = <<"json", "--gist", "--output=out", "d/s.jsonl">>
    /\ Exported
    /\ cli.saved = {}
    /\ cli.uploads = 1

(***************************************************************************)
(* Generator.Generate: the pages, the index and the copy of the source     *)
(***************************************************************************)
\* the largest number of user messages of a session
MaxConvs == 12

\* the catalog message c at instant k
PageMessage(k, c) == [CatalogMessage(c) EXCEPT !.Timestamp = k]

\* the shapes of a session: how many messages follow user message i
Shapes == {"alone", "answered", "mixed"}

Replies(i, shape) ==
    IF shape = "alone" THEN 0 ELSE IF shape = "answered" THEN 1 ELSE i % 3

\* the catalog message that user message i is: the tool results with two
\* commits for every fifth, else one of the two with text
UserOf(i) == IF i % 5 = 4 THEN 3 ELSE 1 + (i % 2)

\* user message i and what follows it (messages 4 to 10 of the catalog),
\* after the first `at' messages
Exchange(i, shape, at) ==
    <<PageMessage(at + 1, UserOf(i))>>
        \o [j \in 1..Replies(i, shape) |-> PageMessage(at + 1 + j, 4 + ((i + j) % 7))]

RECURSIVE ExchangesFrom(_, _, _, _)
ExchangesFrom(i, n, shape, acc) ==
    IF i > n THEN acc
    ELSE Let(acc \o Exchange(i, shape, Len(acc)), LAMBDA next :
             ExchangesFrom(i + 1, n, shape, next))

\* a session of n user messages, after `lead' messages of the assistant
PagedSession(n, lead, shape) ==
    ExchangesFrom(1, n, shape, [k \in 1..lead |-> PageMessage(k, 4)])

InitPages ==
    /\ \E n \in 0..MaxConvs, lead \in 0..1, shape \in Shapes :
          session = PagedSession(n, lead, shape)
    /\ src = [lay |-> "direct", pad |-> FALSE, es |-> <<>>]
    /\ data = <<>>
    /\ pc = "Generate"
    /\ buf = <<>>
    /\ mode = ""
    /\ lines = <<>>
    /\ messages = <<>>
    /\ idx = 1
    /\ err = ""
    /\ gi = 1
    /\ current = <<>>
    /\ conversations = <<>>
    /\ RestIdle

\* fmt.Sprintf("%03d", n)
Pad3(n) ==
    IF n < 10 THEN "00" \o ToString(n)
    ELSE IF n < 100 THEN "0" \o ToString(n) ELSE ToString(n)

\* html.go, line 175
PageFile(pageNum) == "page-" \o Pad3(pageNum) \o ".html"

\* RenderMessageWithAnchor(msg, anchorID, opts): the element of the message,
\* which carries the id when one is given
RenderMessageWithAnchor(msg, anchorID) == [id |-> anchorID, msg |-> msg]

\* generatePage, lines 152-158: the messages of one conversation
AnchoredFirstOfPage(conv, convIdx, startConvIdx) ==
    [m \in 1..Len(conv.Messages) |->
        RenderMessageWithAnchor(conv.Messages[m],
            IF m = 1 /\ convIdx = startConvIdx THEN "msg-" \o ToString(convIdx) ELSE "")]

Anchored(conv, convIdx, startConvIdx) ==
    [m \in 1..Len(conv.Messages) |->
        RenderMessageWithAnchor(conv.Messages[m],
            IF m = 1 THEN "msg-" \o ToString(convIdx) ELSE "")]

\* generatePage, lines 149-159: messagesHTML
RECURSIVE MessagesHTML(_, _, _, _)
MessagesHTML(convs, convOffset, startConvIdx, acc) ==
    IF convOffset >= Len(convs) THEN acc
    ELSE Let(acc \o Anchored(convs[convOffset + 1], startConvIdx + convOffset, startConvIdx),
             LAMBDA next : MessagesHTML(convs, convOffset + 1, startConvIdx, next))

\* Generate, lines 72-76: the conversations of page pageNum
PageEndShort(start, n) ==
    IF start + PromptsPerPage > n THEN n ELSE start + PromptsPerPage - 1

PageEnd(start, n) == IF start + PromptsPerPage > n THEN n ELSE start + PromptsPerPage

pagesFrame ==
    /\ UNCHANGED <<src, data, buf, mode, lines, messages, session, idx>>
    /\ UNCHANGED groupVars
    /\ UNCHANGED <<repoURL, items, totals, ci>>
    /\ UNCHANGED <<batch, search, cli>>

\* Generate, lines 71-78, and generatePage: page out.pageNum is written, from
\* the conversations it is given
GeneratePage ==
    /\ pc = "indexed"
    /\ out.pageNum <= totals.TotalPages
    /\ \E start \in {(out.pageNum - 1) * PromptsPerPage} :
       \E end \in {PageEnd(start, Len(conversations))} :
       \E convs \in {SubSeq(conversations, start + 1, end)} :
          out' = [pageNum |-> out.pageNum + 1,
                  files |-> Append(out.files,
                      [name |-> PageFile(out.pageNum),
                       PageNum |-> out.pageNum,
                       TotalPages |-> totals.TotalPages,
                       Conversations |-> convs,
                       Messages |-> MessagesHTML(convs, 0, start, <<>>)])]
    /\ UNCHANGED <<pc, err>>
    /\ pagesFrame

\* Generate, lines 78-80: the page cannot be written
GeneratePageFails ==
    /\ pc = "indexed"
    /\ out.pageNum <= totals.TotalPages
    /\ err' = "generating page " \o ToString(out.pageNum)
    /\ pc' = "done"
    /\ UNCHANGED out
    /\ pagesFrame

\* generateIndex, lines 183-193: the links of the prompts that are shown
\* (renderIndexPrompt, line 239)
IndexLinks ==
    Let(SelectSeq(items, LAMBDA item :
            item.Type = "prompt" /\ TrimSpaceString(item.Text) # ""),
        LAMBDA shown :
        [k \in 1..Len(shown) |->
            [file |-> PageFile(shown[k].PageNum), anchor |-> shown[k].MessageID]])

\* Generate, lines 84-86, and generateIndex: index.html is written
GenerateIndex ==
    /\ pc = "indexed"
    /\ out.pageNum > totals.TotalPages
    /\ out' = [out EXCEPT !.files =
                  Append(@, [name |-> "index.html", links |-> IndexLinks, stats |-> totals])]
    /\ pc' = "copySourceFile"
    /\ UNCHANGED err
    /\ pagesFrame

\* Generate, lines 84-86: the index cannot be written
GenerateIndexFails ==
    /\ pc = "indexed"
    /\ out.pageNum > totals.TotalPages
    /\ err' = "generating index"
    /\ pc' = "done"
    /\ UNCHANGED out
    /\ pagesFrame

\* Generate, lines 89-95: no copy is asked for, or the source is copied
GenerateReturns ==
    /\ pc = "copySourceFile"
    /\ pc' = "done"
    /\ UNCHANGED <<err, out>>
    /\ pagesFrame

\* Generate, lines 89-93: the source cannot be copied
GenerateCopyFails ==
    /\ pc = "copySourceFile"
    /\ err' = "copying source file"
    /\ pc' = "done"
    /\ UNCHANGED out
    /\ pagesFrame

NextPages ==
    \/ GenerateMkdirFails
    \/ GenerateDetect
    \/ GroupStep
    \/ GroupEnd
    \/ GenerateNoConversations
    \/ GenerateBuild
    \/ IndexPrompt
    \/ IndexCommits
    \/ IndexSort
    \/ GeneratePage
    \/ GeneratePageFails
    \/ GenerateIndex
    \/ GenerateIndexFails
    \/ GenerateReturns
    \/ GenerateCopyFails

SpecPages == InitPages /\ [][NextPages]_vars

\* the transcript pages written, in the order of writing
Pages == SelectSeq(out.files, LAMBDA f : f.name # "index.html")

\* Generate wrote every page and the index
IndexWritten == \E k \in 1..Len(out.files) : out.files[k].name = "index.html"

\* the positions of the user messages of the session
UserPositions == {k \in 1..Len(session) : session[k].Role = "user"}

\* ceil(n / 5)
PagesFor(n) == IF n % 5 = 0 THEN n \div 5 ELSE (n \div 5) + 1

(***************************************************************************)
(* C26: for a session with n >= 1 conversations, Generate writes exactly   *)
(* ceil(n/5) transcript pages numbered 1..ceil(n/5); every page holds at   *)
(* least 1 and at most 5 conversations, every conversation appears on      *)
(* exactly one page, and the conversations appear across the pages in      *)
(* their original order.                                                   *)
(***************************************************************************)
C26_PagesPartitionConversations ==
    IndexWritten =>
        /\ Cardinality(UserPositions) >= 1
        /\ Len(conversations) = Cardinality(UserPositions)
        /\ Len(Pages) = PagesFor(Cardinality(UserPositions))
        /\ \A k \in 1..Len(Pages) :
              /\ Pages[k].PageNum = k
              /\ Pages[k].name = PageFile(k)
              /\ Len(Pages[k].Conversations) \in 1..5
        /\ Concat([k \in 1..Len(Pages) |-> Pages[k].Conversations]) = conversations
        /\ \A a, b \in 1..Len(conversations) : a # b => conversations[a] # conversations[b]

\* twelve conversations give three pages, of five, five and two
C26_TwelveGiveThree ==
    /\ pc = "done"
    /\ err = ""
    /\ Cardinality(UserPositions) = 12
    /\ [k \in 1..Len(Pages) |-> Pages[k].name]
          = <<"page-001.html", "page-002.html", "page-003.html">>
    /\ [k \in 1..Len(Pages) |-> Len(Pages[k].Conversations)] = <<5, 5, 2>>

\* the position of the first user message, past the end when there is none
FirstUser ==
    IF UserPositions = {} THEN Len(session) + 1
    ELSE CHOOSE k \in UserPositions : \A j \in UserPositions : k <= j

\* the message lists of the conversations, one after the other
Grouped == Concat([c \in 1..Len(conversations) |-> conversations[c].Messages])

\* the grouped messages are the session from its first user message on
GroupedIsSessionTail ==
    /\ Len(Grouped) = Len(session) - FirstUser + 1
    /\ \A k \in 1..Len(Grouped) :
          /\ Grouped[k].Role = session[FirstUser + k - 1].Role
          /\ Grouped[k].Content = session[FirstUser + k - 1].Content
          /\ Grouped[k].Timestamp = session[FirstUser + k - 1].Timestamp

(***************************************************************************)
(* C28: grouping loses and duplicates nothing after the first user         *)
(* message: the message lists of the conversations GroupConversations      *)
(* returns, concatenated in order, are exactly the session's messages from *)
(* its first user message to its end (same roles, contents and             *)
(* timestamps), and GroupConversations leaves the session's message list   *)
(* unchanged.                                                              *)
(***************************************************************************)
C28_GroupingKeepsTheTail ==
    /\ [](pc = "grouped" => GroupedIsSessionTail)
    /\ [][session' = session]_vars

\* an assistant message is dropped, and the four messages from the first
\* user message on are in two conversations
C28_Witness ==
    /\ pc = "grouped"
    /\ Len(session) = 5
    /\ session[1].Role = "assistant"
    /\ UserPositions = {2, 4}
    /\ session[4].Timestamp = 4
    /\ Len(conversations) = 2
    /\ Len(Grouped) = 4

\* the prompt items of the index that point at anchor id
PromptsAt(id) == {k \in 1..Len(items) : items[k].Type = "prompt" /\ items[k].MessageID = id}

\* the elements of the pages that carry the id: <<page, position>>
AnchorsOf(id) ==
    UNION {{<<p, m>> : m \in {n \in 1..Len(Pages[p].Messages) : Pages[p].Messages[n].id = id}} :
              p \in 1..Len(Pages)}

\* conversation i (from 0): its prompt item names the page and the anchor,
\* and the anchor is on its first message, on that page and nowhere else
LinkResolves(i) ==
    /\ \E k \in PromptsAt("msg-" \o ToString(i)) :
          /\ PromptsAt("msg-" \o ToString(i)) = {k}
          /\ items[k].PageNum = (i \div 5) + 1
          /\ items[k].Timestamp = conversations[i + 1].Timestamp
          /\ \E p \in 1..Len(Pages) :
                /\ Pages[p].name = PageFile(items[k].PageNum)
                /\ \E m \in 1..Len(Pages[p].Messages) :
                      /\ AnchorsOf("msg-" \o ToString(i)) = {<<p, m>>}
                      /\ Pages[p].Messages[m].msg = conversations[i + 1].Messages[1]

\* the links that index.html shows lead to an anchor of a page written
ShownLinksResolve ==
    \A f \in Range(out.files) :
        f.name = "index.html" =>
            \A l \in Range(f.links) :
                \E p \in 1..Len(Pages) :
                    /\ Pages[p].name = l.file
                    /\ \E m \in 1..Len(Pages[p].Messages) : Pages[p].Messages[m].id = l.anchor

UserMsgCount(msgs) == Cardinality({k \in 1..Len(msgs) : msgs[k].Role = "user"})

\* the tool_use blocks of a sequence of messages: <<message, block>>
ToolUsesIn(msgs) ==
    UNION {{<<m, b>> : b \in {n \in 1..Len(msgs[m].Content) :
                                 msgs[m].Content[n].Type = "tool_use"}} :
              m \in 1..Len(msgs)}

\* buildIndexData has returned
IndexBuilt ==
    \/ pc \in {"indexed", "copySourceFile"}
    \/ pc = "done" /\ totals.TotalPages > 0

(***************************************************************************)
(* C30: the index totals are consistent with the grouped session:          *)
(* TotalPrompts is the number of conversations (the number of user         *)
(* messages, which GetSessionDetails reports as UserMsgCount),             *)
(* TotalMessages is the sum of the conversations' message counts (the      *)
(* session's messages minus those before the first user message),          *)
(* TotalToolCalls is the number of tool_use blocks inside conversations,   *)
(* TotalCommits is the number of commit items, and TotalPages is           *)
(* ceil(TotalPrompts/5).                                                   *)
(***************************************************************************)
C30_TotalsAreConsistent ==
    IndexBuilt =>
        /\ totals.TotalPrompts = Len(conversations)
        /\ totals.TotalPrompts = UserMsgCount(session)
        /\ totals.TotalMessages = Len(Grouped)
        /\ totals.TotalMessages = Len(session) - (FirstUser - 1)
        /\ totals.TotalToolCalls = Cardinality(ToolUsesIn(Grouped))
        /\ totals.TotalCommits = Cardinality({k \in 1..Len(items) : items[k].Type = "commit"})
        /\ totals.TotalPages = PagesFor(totals.TotalPrompts)

\* twelve prompts on three pages after a leading assistant message, whose
\* four tool calls are not counted
C30_Witness ==
    /\ pc = "indexed"
    /\ FirstUser = 2
    /\ Cardinality(ToolUsesIn(session)) = totals.TotalToolCalls + 4
    /\ totals.TotalPrompts = 12
    /\ totals.TotalPages = 3
    /\ totals.TotalMessages = Len(session) - 1
    /\ totals.TotalMessages > 12
    /\ totals.TotalToolCalls > 12
    /\ totals.TotalCommits >= 2

====
